---- MODULE Spec2Model ----
(***************************************************************************)
(* Model of the detechtor analysis core.                                   *)
(*                                                                         *)
(*   Spec          analyzeProject / analyzeWorkspace (src/analyze/index.ts)*)
(*   SpecDiscover  detectWorkspaceProjects (detectors/workspace.ts)        *)
(*   SpecFrontend  detectFrontend (detectors/structure.ts)                 *)
(*                                                                         *)
(* Every await of the TypeScript code is a point where the cancellation    *)
(* token may change, so analyzeProject is split at its awaits: the path    *)
(* check, the head of the phase loop, and the completion of a phase.       *)
(* Percentages are kept in half-percent units (12.5% is 25) so that        *)
(* 100 / phases.length stays an integer.                                   *)
(***************************************************************************)
EXTENDS Integers, Sequences, FiniteSets, TLC

VARIABLES
    mode,          \* entry point the caller invoked: "project" | "workspace" | "discover" | "frontend"
    cancel,        \* token.isCancellationRequested
    atCancel,      \* what had been started at the moment the token was cancelled
    \* ---- analyzeWorkspace ------------------------------------------------
    wsFiles,       \* files below the workspace path (what glob can see)
    wsPc,          \* position inside analyzeWorkspace
    wsErr,         \* message class of the error analyzeWorkspace rejected with
    wsAccessible,  \* outcome of pathExists(workspacePath)
    wsResult,      \* <<the WorkspaceAnalysis returned>>, or <<>> while there is none
    roots,         \* const roots = await detectWorkspaceProjects(...)
    rootIdx,       \* number of roots the for-loop has finished
    projects,      \* const projects: ProjectAnalysis[]
    calls,         \* number of analyzeProject calls made by analyzeWorkspace
    frontendComponents, \* const frontendComponents: WorkspaceComponentRef[]
    backendComponents,  \* const backendComponents: WorkspaceComponentRef[]
    sink,          \* number of progress.report calls received by the progress sink
    faults,        \* number of exceptions raised inside detectors so far
    \* ---- analyzeProject --------------------------------------------------
    projectPath,   \* argument of the running analyzeProject call
    apPc,          \* position inside analyzeProject
    apErr,         \* why analyzeProject rejected
    accessible,    \* outcome of pathExists / fs.stat for projectPath
    sawCancel,     \* the loop left through `if (token?.isCancellationRequested) break`
    increment,     \* let increment (half-percent units)
    started,       \* phases handed to startPhase, in order
    finished,      \* number of startPhase calls that have settled
    reports,       \* progress reports of this run: [pct, completed]
    analysis,      \* const analysis
    \* ---- detectWorkspaceProjects, run twice on one tree ---------------------
    rootsAgain,    \* result of a second detectWorkspaceProjects on the same files
    \* ---- detectFrontend -----------------------------------------------------
    fePc,          \* position inside detectFrontend
    fePackageJson, \* readPackageJson(projectPath) found a parsable package.json
    feDeps,        \* names under dependencies / devDependencies of that package.json
    feFiles,       \* kinds of source files present below projectPath
    feManifest,    \* the analysis as the manifest phases (2-4) left it
    feAnalysis,    \* const analysis: FrontendAnalysis
    \* ---- detectBackend ------------------------------------------------------
    bePc,          \* position inside detectBackend
    beFiles,       \* files present in projectPath (runtime markers, sources)
    beDeps,        \* names under dependencies / devDependencies of package.json
    beReqs,        \* package names on the lines of requirements.txt
    beGoMod,       \* module paths required in go.mod
    beMerged,      \* the phase results mergeBackendAnalysis was called with, in order
    beAnalysis,    \* const analysis = createBackendAnalysisBase()
    \* ---- createDependencyObject / categorizeDependency ----------------------
    dcName,        \* the dependency name, as its characters
    dcDependency,  \* <<the Dependency createDependencyObject built>>, or <<>>
    dcCategorized, \* what categorizeDependency(name) returned, or "undefined"
    \* ---- detectLanguages ----------------------------------------------------
    lpEnv,         \* the directory: its files in glob order, and which calls reject
    lpPc,          \* position inside detectLanguages
    lpRun,         \* 1 for the first run on the directory, 2 for the second
    lpI,           \* let i of the batch loop
    lpTask,        \* position of the callback of each file of the batch
    lpStats,       \* const stats: LanguageStats, in insertion order
    lpReturned,    \* the list detectLanguages / rankLanguages returned
    lpThrew,       \* detectLanguages rejected
    lpFirst,       \* <<statistics and list of the first run>>, or <<>>
    \* ---- detectTestingTools -------------------------------------------------
    tdPc,          \* position inside detectTestingTools
    tdEnv,         \* the project: package.json, its dependencies and scripts, files
    tdAnalysis,    \* const analysis: TestingAnalysis
    tdManifest,    \* the analysis as phase 1 (package.json) left it
    tdTrue         \* the flags that were true after some phase

aggVars == <<mode, cancel, atCancel, wsFiles, wsPc, wsErr, wsAccessible, wsResult, roots, rootIdx, projects, calls,
             frontendComponents, backendComponents, sink, faults,
             projectPath, apPc, apErr, accessible, sawCancel, increment, started,
             finished, reports, analysis>>

feVars == <<fePc, fePackageJson, feDeps, feFiles, feManifest, feAnalysis>>

beVars == <<bePc, beFiles, beDeps, beReqs, beGoMod, beMerged, beAnalysis>>

\* the variables of the detector runs, and those outside detectFrontend
dcVars == <<dcName, dcDependency, dcCategorized>>

lpVars == <<lpEnv, lpPc, lpRun, lpI, lpTask, lpStats, lpReturned, lpThrew, lpFirst>>

detVars == <<feVars, beVars, dcVars, lpVars>>

tdVars == <<tdPc, tdEnv, tdAnalysis, tdManifest, tdTrue>>

notFeVars == <<beVars, dcVars, lpVars>>

notBeVars == <<feVars, dcVars, lpVars>>

vars == <<aggVars, rootsAgain, detVars, tdVars>>

(***************************************************************************)
(* Bounds                                                                  *)
(***************************************************************************)
MaxRoots == 2      \* directories that may hold a manifest in an analysed workspace
MaxFaults == 2     \* detector exceptions injected in one behaviour
MaxDirs == 3       \* directories of a scanned tree whose manifests vary freely

(***************************************************************************)
(* Generic helpers                                                         *)
(***************************************************************************)
Range(s) == {s[i] : i \in 1..Len(s)}

IsPrefix(s, t) == Len(s) <= Len(t) /\ \A i \in 1..Len(s) : s[i] = t[i]

NoDup(s) == \A i, j \in 1..Len(s) : i # j => s[i] # s[j]

(***************************************************************************)
(* Paths.  A directory path is the sequence of its segments below the      *)
(* workspace path; <<>> is the workspace path itself.  Segments are single *)
(* letters (plus the ignored directory names), so comparing two paths      *)
(* character by character is comparing them segment by segment.            *)
(***************************************************************************)
DirList == << <<"b">>, <<"a">>, <<"B">>, <<"node_modules", "a">>, <<"a", "b">>, <<>>, <<"B", "a">> >>

MANIFEST_PATTERNS == <<"package.json", "requirements.txt", "pyproject.toml", "Cargo.toml",
                       "composer.json", "pom.xml", "build.gradle", "go.mod">>

IGNORE_PATTERNS == {"node_modules", ".git", "dist", "build", "out", ".next", ".nuxt", "vendor"}

FileNames == {"package.json", "go.mod", "README.md"}

\* String.prototype.localeCompare on paths: the collation compares the whole
\* strings on their primary weights (letters regardless of case) and only
\* then on case, lower case first.
PrimaryWeight(c) == CASE c = "a" -> 1 [] c = "b" -> 2 [] c = "B" -> 2 [] OTHER -> 3

TertiaryWeight(c) == IF c = "B" THEN 1 ELSE 0

RECURSIVE CompareKeys(_, _)
CompareKeys(x, y) ==
    IF x = <<>> /\ y = <<>> THEN 0
    ELSE IF x = <<>> THEN -1
    ELSE IF y = <<>> THEN 1
    ELSE IF Head(x) < Head(y) THEN -1
    ELSE IF Head(x) > Head(y) THEN 1
    ELSE CompareKeys(Tail(x), Tail(y))

localeCompare(a, b) ==
    LET pa == [i \in 1..Len(a) |-> PrimaryWeight(a[i])]
        pb == [i \in 1..Len(b) |-> PrimaryWeight(b[i])]
        ta == [i \in 1..Len(a) |-> TertiaryWeight(a[i])]
        tb == [i \in 1..Len(b) |-> TertiaryWeight(b[i])]
        c1 == CompareKeys(pa, pb)
    IN  IF c1 # 0 THEN c1 ELSE CompareKeys(ta, tb)

\* Array.prototype.sort with the comparator ([a], [b]) => a.localeCompare(b):
\* stable, so an entry goes behind every entry that does not compare greater.
RECURSIVE InsertEntry(_, _)
InsertEntry(e, s) ==
    IF s = <<>> THEN <<e>>
    ELSE IF localeCompare(Head(s).rootDir, e.rootDir) <= 0
         THEN <<Head(s)>> \o InsertEntry(e, Tail(s))
         ELSE <<e>> \o s

SortEntriesUnsorted(entries) == entries

RECURSIVE SortEntries(_)
SortEntries(entries) ==
    IF entries = <<>> THEN <<>>
    ELSE InsertEntry(entries[Len(entries)], SortEntries(SubSeq(entries, 1, Len(entries) - 1)))

\* String(n): decimal digits of a positive integer.
DigitChar == <<"0", "1", "2", "3", "4", "5", "6", "7", "8", "9">>

RECURSIVE String(_)
String(n) == IF n < 10 THEN <<DigitChar[n + 1]>>
             ELSE String(n \div 10) \o <<DigitChar[(n % 10) + 1]>>

RECURSIVE padStart(_, _, _)
padStart(s, targetLength, fill) ==
    IF Len(s) >= targetLength THEN s ELSE padStart(<<fill>> \o s, targetLength, fill)

ProjId(n) == <<"p", "r", "o", "j", "-">> \o padStart(String(n), 3, "0")

\* glob(pattern, {cwd, nodir, ignore: IGNORE_PATTERNS}) for one manifest
\* pattern '**/<name>': the matching files, in the order of the directory
\* walk dirOrder (the order is the file system's, not the program's).
Ignored(dir) == \E i \in 1..Len(dir) : dir[i] \in IGNORE_PATTERNS

globNothingIgnored(files, name, dirOrder) ==
    SelectSeq(dirOrder, LAMBDA d : [dir |-> d, name |-> name] \in files)

glob(files, name, dirOrder) ==
    LET Hit(d) == [dir |-> d, name |-> name] \in files /\ ~Ignored(d)
    IN  SelectSeq(dirOrder, Hit)

\* lines 50-65: roots = Map<rootDir, Set<file>> in insertion order
RECURSIVE CollectRoots(_, _, _, _)
CollectRoots(files, dirOrder, k, acc) ==
    IF k > Len(MANIFEST_PATTERNS) THEN acc
    ELSE LET hits == glob(files, MANIFEST_PATTERNS[k], dirOrder)
             known == {acc[i].rootDir : i \in 1..Len(acc)}
             upd == [i \in 1..Len(acc) |->
                        IF \E j \in 1..Len(hits) : hits[j] = acc[i].rootDir
                        THEN [acc[i] EXCEPT !.manifestFiles = @ \cup {MANIFEST_PATTERNS[k]}]
                        ELSE acc[i]]
             fresh == SelectSeq(hits, LAMBDA d : d \notin known)
             new == [i \in 1..Len(fresh) |->
                        [rootDir |-> fresh[i], manifestFiles |-> {MANIFEST_PATTERNS[k]}]]
         IN  CollectRoots(files, dirOrder, k + 1, upd \o new)

\* path.basename(rootPath); the workspace directory itself is named "w"
basename(dir) == IF dir = <<>> THEN "w" ELSE dir[Len(dir)]

inferTypeHints(dir) ==
    (IF \E i \in 1..Len(dir) : dir[i] \in {"client", "frontend", "web", "ui"}
        THEN {"frontend"} ELSE {})
    \cup (IF \E i \in 1..Len(dir) : dir[i] \in {"server", "backend", "api"}
        THEN {"backend"} ELSE {})
    \cup (IF \E i \in 1..Len(dir) : dir[i] \in {"service", "services"}
        THEN {"service"} ELSE {})

\* detectPackageManager as far as the manifest universe shows it: of the lock
\* files it probes only go.mod can be present.
detectPackageManager(files, dir) ==
    IF [dir |-> dir, name |-> "go.mod"] \in files
    THEN [packageManagers |-> <<"go">>, hasLockFile |-> TRUE]
    ELSE [packageManagers |-> <<>>, hasLockFile |-> FALSE]

detectWorkspaceProjects(files, dirOrder) ==
    LET found == CollectRoots(files, dirOrder, 1, <<>>)
        entries == IF found = <<>> THEN << [rootDir |-> <<>>, manifestFiles |-> {}] >> ELSE found
        sortedRoots == SortEntries(entries)
    IN  [i \in 1..Len(sortedRoots) |->
            [id |-> ProjId(i),
             rootPath |-> sortedRoots[i].rootDir,
             name |-> basename(sortedRoots[i].rootDir),
             manifestFiles |-> sortedRoots[i].manifestFiles,
             packageManagers |-> detectPackageManager(files, sortedRoots[i].rootDir).packageManagers,
             hasLockFile |-> detectPackageManager(files, sortedRoots[i].rootDir).hasLockFile,
             typeHints |-> inferTypeHints(sortedRoots[i].rootDir)]]

\* Every order in which a directory walk can yield the directories of ds.
RECURSIVE Orders(_)
Orders(ds) ==
    IF ds = {} THEN {<<>>}
    ELSE UNION {{<<d>> \o o : o \in Orders(ds \ {d})} : d \in ds}

DirsOf(files) == {f.dir : f \in files}


(***************************************************************************)
(* analyzeProject: the profile under construction.                         *)
(* `assigned` is the set of properties the run has written; a property     *)
(* outside it is still absent (undefined) and its slot holds a placeholder.*)
(***************************************************************************)
phasesRepeated == <<"LANGUAGE", "LANGUAGE", "CONFIGURATION", "FRAMEWORK", "TESTING",
                    "DEPENDENCY", "PROJECT_STRUCTURE", "DOCUMENTATION">>

phasesSwapped == <<"LANGUAGE", "CONFIGURATION", "TESTING", "FRAMEWORK", "DEPENDENCY",
                   "PROJECT_STRUCTURE", "DOCUMENTATION", "METADATA">>

phases == <<"LANGUAGE", "CONFIGURATION", "FRAMEWORK", "TESTING", "DEPENDENCY",
            "PROJECT_STRUCTURE", "DOCUMENTATION", "METADATA">>

NoName == [isString |-> TRUE, text |-> <<>>]

NewAnalysis ==
    [assigned |-> {},
     projectLastModified |-> FALSE,
     languages |-> <<>>, hasTypeScript |-> FALSE,
     configFiles |-> {}, hasLinting |-> FALSE, hasCI |-> FALSE, hasDocker |-> FALSE,
     frontend |-> "undefined", backend |-> "undefined",
     testing |-> {}, hasTests |-> FALSE,
     dependencies |-> 0,
     entryPoints |-> {}, sourceDirectories |-> {}, testDirectories |-> {}, buildOutputs |-> {},
     hasDocumentation |-> FALSE,
     name |-> NoName,
     rootPath |-> <<>>, components |-> <<>>,
     projectId |-> <<>>, projectTypeHints |-> {}]

\* What the leaf detectors find in a project directory when nothing fails.
\* Directories named "a" hold a TypeScript React client without a package
\* name, directories named "b" an Express service with Jest tests, and
\* directories named "B" nothing but a package.json whose "name" is a number;
\* any other directory is empty.
Fixture(dir) ==
    CASE basename(dir) = "a" ->
            [languages |-> <<"TypeScript">>, configFiles |-> {".eslintrc.json", "package.json"},
             frontend |-> "React", backend |-> "Unknown", testing |-> {},
             dependencies |-> 2, entryPoints |-> {"index.ts"}, hasDocumentation |-> TRUE,
             name |-> [isString |-> TRUE, text |-> <<>>]]
      [] basename(dir) = "b" ->
            [languages |-> <<"JavaScript">>, configFiles |-> {"Dockerfile", "package.json"},
             frontend |-> "Unknown", backend |-> "Express.js", testing |-> {"Jest"},
             dependencies |-> 3, entryPoints |-> {}, hasDocumentation |-> FALSE,
             name |-> [isString |-> TRUE, text |-> <<"A", "_", "b">>]]
      [] basename(dir) = "B" ->
            [languages |-> <<>>, configFiles |-> {"package.json"},
             frontend |-> "Unknown", backend |-> "Unknown", testing |-> {},
             dependencies |-> 0, entryPoints |-> {}, hasDocumentation |-> FALSE,
             name |-> [isString |-> FALSE, text |-> <<>>]]
      [] OTHER ->
            [languages |-> <<>>, configFiles |-> {},
             frontend |-> "Unknown", backend |-> "Unknown", testing |-> {},
             dependencies |-> 0, entryPoints |-> {}, hasDocumentation |-> FALSE,
             name |-> [isString |-> TRUE, text |-> <<>>]]

\* Each detector's own error handling: `raised` says that something inside
\* its try block threw, `v` is what it would have returned otherwise.
\* detectLanguages catches and returns fallbackDetection(projectPath).
detectLanguages(raised, v) == [threw |-> FALSE, value |-> IF raised THEN <<>> ELSE v]

\* scanForConfigFiles swallows every error per pattern.
scanForConfigFiles(raised, v) == [threw |-> FALSE, value |-> IF raised THEN {} ELSE v]

\* detectFrontend / detectBackend catch and return the base analysis.
detectFrontend(raised, v) == [threw |-> FALSE, value |-> IF raised THEN "Unknown" ELSE v]

detectBackend(raised, v) == [threw |-> FALSE, value |-> IF raised THEN "Unknown" ELSE v]

\* detectTestingTools catches and returns the analysis built so far.
detectTestingTools(raised, v) == [threw |-> FALSE, value |-> IF raised THEN {} ELSE v]

\* analyzeDependencies logs and rethrows: catch (error) { ...; throw error; }
analyzeDependencies(raised, v) == [threw |-> raised, value |-> v]

\* analyzeProjectStructure catches and returns the empty structure.
analyzeProjectStructure(raised, v) == [threw |-> FALSE, value |-> IF raised THEN {} ELSE v]

\* hasDocumentation: a failing fs.access only means "file absent".
hasDocumentation(raised, v) == [threw |-> FALSE, value |-> IF raised THEN FALSE ELSE v]

\* extractProjectMetadata: package.json unreadable -> name = basename(path);
\* otherwise name = packageJson.name || basename(path).
extractProjectMetadata(raised, v, path) ==
    [threw |-> FALSE,
     value |-> IF raised \/ (v.isString /\ v.text = <<>>)
               THEN [isString |-> TRUE, text |-> <<basename(path)>>]
               ELSE v]

\* sanitizeId: lower-case, runs of other characters become one '-', one
\* leading and one trailing '-' are dropped, '' becomes 'project'.
toLowerCase(c) ==
    CASE c = "A" -> "a"
      [] c = "B" -> "b"
      [] c = "C" -> "c"
      [] c = "D" -> "d"
      [] c = "E" -> "e"
      [] c = "F" -> "f"
      [] c = "G" -> "g"
      [] c = "H" -> "h"
      [] c = "I" -> "i"
      [] c = "J" -> "j"
      [] c = "K" -> "k"
      [] c = "L" -> "l"
      [] c = "M" -> "m"
      [] c = "N" -> "n"
      [] c = "O" -> "o"
      [] c = "P" -> "p"
      [] c = "Q" -> "q"
      [] c = "R" -> "r"
      [] c = "S" -> "s"
      [] c = "T" -> "t"
      [] c = "U" -> "u"
      [] c = "V" -> "v"
      [] c = "W" -> "w"
      [] c = "X" -> "x"
      [] c = "Y" -> "y"
      [] c = "Z" -> "z"
      [] OTHER -> c

IdChars == {"a", "b", "w", "0", "1"}

RECURSIVE CollapseRuns(_, _)
CollapseRuns(s, inRun) ==
    IF s = <<>> THEN <<>>
    ELSE IF toLowerCase(Head(s)) \in IdChars
         THEN <<toLowerCase(Head(s))>> \o CollapseRuns(Tail(s), FALSE)
         ELSE IF inRun THEN CollapseRuns(Tail(s), TRUE)
              ELSE <<"-">> \o CollapseRuns(Tail(s), TRUE)

sanitizeId(value) ==
    LET collapsed == CollapseRuns(value, FALSE)
        noLead == IF collapsed # <<>> /\ Head(collapsed) = "-" THEN Tail(collapsed) ELSE collapsed
        noTrail == IF noLead # <<>> /\ noLead[Len(noLead)] = "-"
                   THEN SubSeq(noLead, 1, Len(noLead) - 1) ELSE noLead
    IN  IF noTrail = <<>> THEN <<"project">> ELSE noTrail

HasFrameworkNamed(fw) == fw # "undefined"

HasFramework(fw) == fw # "undefined" /\ fw # "Unknown"

\* buildComponentsFromAnalysis: throws (TypeError in sanitizeId) when
\* projectInfo.name is a truthy non-string.
BuildThrows(a) == "name" \in a.assigned /\ ~a.name.isString

buildComponentsFromAnalysis(a) ==
    LET baseId == IF "name" \in a.assigned /\ a.name.text # <<>>
                  THEN sanitizeId(a.name.text) ELSE <<"project">>
        fe == IF HasFramework(a.frontend)
              THEN << [id |-> baseId \o <<"-", "frontend", "-", "1">>, kind |-> "frontend",
                       rootPath |-> a.rootPath, frameworks |-> <<a.frontend>>] >>
              ELSE <<>>
        be == IF HasFramework(a.backend)
              THEN << [id |-> baseId \o <<"-", "backend", "-", "1">>, kind |-> "backend",
                       rootPath |-> a.rootPath, frameworks |-> <<a.backend>>] >>
              ELSE <<>>
    IN  IF fe \o be = <<>>
        THEN << [id |-> baseId \o <<"-", "unknown", "-", "1">>, kind |-> "unknown",
                 rootPath |-> a.rootPath, frameworks |-> <<>>] >>
        ELSE fe \o be


\* startPhase(analysis, projectPath, phase, ...) once its awaits have settled:
\* the properties the phase writes, or the exception it lets through.
startPhase(a, path, phase, raised) ==
    LET fx == Fixture(path)
    IN  CASE phase = "LANGUAGE" ->
                LET r == detectLanguages(raised, fx.languages)
                IN  [threw |-> r.threw,
                     analysis |-> [a EXCEPT !.languages = r.value,
                                            !.hasTypeScript = "TypeScript" \in Range(r.value),
                                            !.assigned = @ \cup {"languages", "hasTypeScript"}]]
          [] phase = "CONFIGURATION" ->
                LET r == scanForConfigFiles(raised, fx.configFiles)
                IN  [threw |-> r.threw,
                     analysis |-> [a EXCEPT !.configFiles = r.value,
                                            !.hasLinting = ".eslintrc.json" \in r.value,
                                            !.hasCI = ".gitlab-ci.yml" \in r.value,
                                            !.hasDocker = "Dockerfile" \in r.value,
                                            !.assigned = @ \cup {"configFiles", "hasLinting",
                                                                 "hasCI", "hasDocker"}]]
          [] phase = "FRAMEWORK" ->
                LET f == detectFrontend(raised, fx.frontend)
                    b == detectBackend(raised, fx.backend)
                IN  [threw |-> f.threw \/ b.threw,
                     analysis |-> [a EXCEPT !.frontend = f.value, !.backend = b.value,
                                            !.assigned = @ \cup {"frontend", "backend"}]]
          [] phase = "TESTING" ->
                LET r == detectTestingTools(raised, fx.testing)
                IN  [threw |-> r.threw,
                     analysis |-> [a EXCEPT !.testing = r.value,
                                            !.hasTests = r.value # {},
                                            !.assigned = @ \cup {"testing", "hasTests"}]]
          [] phase = "DEPENDENCY" ->
                LET r == analyzeDependencies(raised, fx.dependencies)
                IN  [threw |-> r.threw,
                     analysis |-> IF r.threw THEN a
                                  ELSE [a EXCEPT !.dependencies = r.value,
                                                 !.assigned = @ \cup {"dependencies"}]]
          [] phase = "PROJECT_STRUCTURE" ->
                \* Object.assign(analysis.fileStructure, {entryPoints, configFiles: [], ...})
                LET r == analyzeProjectStructure(raised, fx.entryPoints)
                IN  [threw |-> r.threw,
                     analysis |-> [a EXCEPT !.entryPoints = r.value,
                                            !.configFiles = {},
                                            !.sourceDirectories = {},
                                            !.testDirectories = {},
                                            !.buildOutputs = {},
                                            !.assigned = @ \cup {"entryPoints", "configFiles",
                                                "sourceDirectories", "testDirectories", "buildOutputs"}]]
          [] phase = "DOCUMENTATION" ->
                LET r == hasDocumentation(raised, fx.hasDocumentation)
                IN  [threw |-> r.threw,
                     analysis |-> [a EXCEPT !.hasDocumentation = r.value,
                                            !.assigned = @ \cup {"hasDocumentation"}]]
          [] OTHER ->
                LET r == extractProjectMetadata(raised, fx.name, path)
                IN  [threw |-> r.threw,
                     analysis |-> [a EXCEPT !.name = r.value,
                                            !.assigned = @ \cup {"name"}]]


(***************************************************************************)
(* detectFrontend (detectors/structure.ts).  Frameworks are their names;   *)
(* `features` is a function from the flags that are present to booleans,   *)
(* so a flag can also be absent.  The source-directory, CSS, library and   *)
(* build-tool phases write only their own scalar fields and are not        *)
(* modelled; the manifest's dependency tables are one set of names.        *)
(***************************************************************************)
FeDepUniverse == {"react", "vue", "preact", "jquery", "typescript", "next", "prettier"}

FeFileUniverse == {"jsx", "tsx", "vue", "svelte", "component.ts", "next.config.js"}

FeatureFlags == {"hasTypeScript", "hasJSX", "hasSSR", "hasStaticSite", "hasPWA", "hasMobile",
                 "hasDesktop", "hasTesting", "hasStorybook", "hasLinting", "hasFormatting"}

NewFrontendAnalysis ==
    [framework |-> "Unknown",
     hasRouter |-> FALSE,
     hasStateManagement |-> FALSE,
     frameworks |-> <<>>,
     metaFrameworks |-> <<>>,
     features |-> [f \in FeatureFlags |-> FALSE],
     configFiles |-> {}]

Has(deps, names) == deps \cap names # {}

detectFrameworksFromDependencies(deps) ==
    (IF Has(deps, {"react", "react-dom"}) THEN <<"React">> ELSE <<>>)
    \o (IF Has(deps, {"vue", "@vue/runtime-dom"}) THEN <<"Vue">> ELSE <<>>)
    \o (IF Has(deps, {"@angular/core"}) THEN <<"Angular">> ELSE <<>>)
    \o (IF Has(deps, {"svelte", "svelte/store"}) THEN <<"Svelte">> ELSE <<>>)
    \o (IF Has(deps, {"preact"}) THEN <<"Preact">> ELSE <<>>)
    \o (IF Has(deps, {"solid-js"}) THEN <<"SolidJS">> ELSE <<>>)
    \o (IF Has(deps, {"lit", "lit-element"}) THEN <<"Lit">> ELSE <<>>)
    \o (IF Has(deps, {"alpinejs"}) THEN <<"Alpine.js">> ELSE <<>>)
    \o (IF Has(deps, {"jquery"}) THEN <<"jQuery">> ELSE <<>>)

FrontendPriority == <<"React", "Vue", "Angular", "Svelte", "Preact", "SolidJS", "Lit",
                      "Alpine.js", "jQuery">>

\* pickPrimaryFramework: the first name of the priority list that occurs in
\* frameworks, else frameworks[0]; "undefined" for an empty list.
pickPrimaryFramework(frameworks) ==
    IF frameworks = <<>> THEN "undefined"
    ELSE LET hits == SelectSeq(FrontendPriority, LAMBDA n : n \in Range(frameworks))
         IN  IF hits # <<>> THEN hits[1] ELSE frameworks[1]

\* push every incoming framework, listed or not
pushFrameworks(existing, incoming) == existing \o incoming

RECURSIVE mergeFrameworks(_, _)
mergeFrameworks(existing, incoming) ==
    IF incoming = <<>> THEN existing
    ELSE IF Head(incoming) \in Range(existing)
         THEN mergeFrameworks(existing, Tail(incoming))
         ELSE mergeFrameworks(Append(existing, Head(incoming)), Tail(incoming))

detectFrameworkFromDependencies(deps) ==
    LET frameworks == detectFrameworksFromDependencies(deps)
        primary == pickPrimaryFramework(frameworks)
    IN  [framework |-> IF primary # "undefined" THEN primary ELSE "Unknown",
         frameworks |-> frameworks,
         hasRouter |-> Has(deps, {"react-router", "react-router-dom", "vue-router",
                                  "svelte-routing", "@sveltejs/kit", "preact-router",
                                  "@solidjs/router", "@angular/router"}),
         hasStateManagement |-> Has(deps, {"redux", "mobx", "zustand", "recoil", "vuex",
                                           "pinia", "@ngrx/store", "ngxs"})]

detectMetaFrameworks(deps) ==
    (IF "next" \in deps THEN <<"Next.js">> ELSE <<>>)
    \o (IF "gatsby" \in deps THEN <<"Gatsby">> ELSE <<>>)
    \o (IF "remix" \in deps THEN <<"Remix">> ELSE <<>>)
    \o (IF "vite" \in deps /\ "react" \in deps THEN <<"Vite + React">> ELSE <<>>)
    \o (IF Has(deps, {"nuxt", "nuxt3"}) THEN <<"Nuxt.js">> ELSE <<>>)
    \o (IF "vite" \in deps /\ "vue" \in deps THEN <<"Vite + Vue">> ELSE <<>>)
    \o (IF "quasar" \in deps THEN <<"Quasar">> ELSE <<>>)
    \o (IF "@sveltejs/kit" \in deps THEN <<"SvelteKit">> ELSE <<>>)
    \o (IF "vite" \in deps /\ "svelte" \in deps THEN <<"Vite + Svelte">> ELSE <<>>)
    \o (IF "@angular/platform-server" \in deps THEN <<"Angular Universal">> ELSE <<>>)
    \o (IF "astro" \in deps THEN <<"Astro">> ELSE <<>>)
    \o (IF "eleventy" \in deps THEN <<"Eleventy">> ELSE <<>>)
    \o (IF "vuepress" \in deps THEN <<"VuePress">> ELSE <<>>)

detectFeaturesFromDependencies(deps) ==
    [f \in FeatureFlags |->
        CASE f = "hasTypeScript" -> Has(deps, {"typescript", "ts-node"})
          [] f = "hasJSX" -> Has(deps, {"react", "preact", "solid-js"})
          [] f = "hasSSR" -> Has(deps, {"next", "nuxt", "@sveltejs/kit",
                                        "@angular/platform-server"})
          [] f = "hasStaticSite" -> Has(deps, {"gatsby", "astro", "eleventy", "vuepress"})
          [] f = "hasPWA" -> Has(deps, {"workbox-webpack-plugin", "@angular/pwa",
                                        "@vue/cli-plugin-pwa"})
          [] f = "hasMobile" -> Has(deps, {"react-native", "@ionic/react", "@capacitor/core"})
          [] f = "hasDesktop" -> Has(deps, {"electron", "tauri", "@neutralinojs/neu"})
          [] f = "hasTesting" -> Has(deps, {"jest", "vitest", "mocha", "cypress", "playwright",
                                            "@testing-library/react", "@testing-library/vue",
                                            "@testing-library/angular",
                                            "@testing-library/svelte"})
          [] f = "hasStorybook" -> Has(deps, {"storybook", "@storybook/react", "@storybook/vue",
                                              "@storybook/angular", "@storybook/svelte"})
          [] f = "hasLinting" -> Has(deps, {"eslint", "@typescript-eslint/eslint-plugin",
                                            "stylelint"})
          [] OTHER -> "prettier" \in deps]

\* Object.assign(target, source) on the features objects
AssignFeatures(target, source) ==
    [f \in (DOMAIN target) \cup (DOMAIN source) |->
        IF f \in DOMAIN source THEN source[f] ELSE target[f]]

\* File names of the project that the config patterns of analyzeConfigFiles
\* match (one representative per pattern the model's files can hit).
ConfigFileNames == {"next.config.js", "nuxt.config.ts", "svelte.config.js", "angular.json",
                    "vue.config.js", "vite.config.ts", "tsconfig.json"}

\* analyzeConfigFiles: the config files found and features {hasSSR,
\* hasStaticSite}; a failing glob ends it before features is created.
analyzeConfigFiles(files, raised) ==
    IF raised
    THEN [configFiles |-> {}, hasFeatures |-> FALSE, features |-> <<>>]
    ELSE LET configFiles == files \cap ConfigFileNames
         IN  [configFiles |-> configFiles,
              hasFeatures |-> TRUE,
              features |-> [f \in {"hasSSR", "hasStaticSite"} |->
                               IF f = "hasSSR"
                               THEN Has(configFiles, {"next.config.js", "nuxt.config.ts",
                                                      "svelte.config.js"})
                               ELSE Has(configFiles, {"gatsby-config.js", "astro.config.mjs"})]]

\* verifyFrameworkByFiles: the first check (React, Vue, Svelte, Angular) with
\* at least one matching file names the framework; raised = "checks" is a
\* glob failing inside the checks, "features" one failing after them.
\* Files are named by their extension; all lie within depth 3.
verifyFrameworkByFiles(files, raised) ==
    LET found == IF Has(files, {"jsx", "tsx"}) THEN "React"
                 ELSE IF "vue" \in files THEN "Vue"
                 ELSE IF "svelte" \in files THEN "Svelte"
                 ELSE IF Has(files, {"component.ts", "angular.json"}) THEN "Angular"
                 ELSE "undefined"
    IN  CASE raised = "checks" ->
                [framework |-> "undefined", hasFeatures |-> FALSE,
                 hasJSX |-> FALSE, hasTypeScript |-> FALSE]
          [] raised = "features" ->
                [framework |-> found, hasFeatures |-> TRUE,
                 hasJSX |-> FALSE, hasTypeScript |-> FALSE]
          [] OTHER ->
                [framework |-> found, hasFeatures |-> TRUE,
                 hasJSX |-> Has(files, {"jsx", "tsx"}),
                 hasTypeScript |-> Has(files, {"tsx", "component.ts"})]

\* features.flag = found || features.flag: true when found, else the old
\* value; a flag whose value is undefined is one outside the DOMAIN.
OrFlag(features, f, found) ==
    IF found THEN AssignFeatures(features, [g \in {f} |-> TRUE]) ELSE features

FeIdle ==
    /\ fePc = "off"
    /\ fePackageJson = FALSE
    /\ feDeps = {}
    /\ feFiles = {}
    /\ feManifest = NewFrontendAnalysis
    /\ feAnalysis = NewFrontendAnalysis

DiscoverIdle == rootsAgain = <<>>

(***************************************************************************)
(* detectBackend (detectors/backend.ts).  A framework is [name, server];   *)
(* an absent scalar is "undefined"; a phase result is a function whose     *)
(* DOMAIN holds the fields the phase supplies.  features and deployment    *)
(* are functions from the flags that hold a boolean to that boolean: a     *)
(* flag whose value is undefined is outside the DOMAIN.                    *)
(***************************************************************************)
BackendFlags == {"hasGraphQL", "hasREST", "hasWebSockets", "hasMicroservices", "hasQueue",
                 "hasCronJobs", "hasFileUpload", "hasValidation", "hasTesting",
                 "hasDocumentation"}

DeploymentFlags == {"hasDocker", "hasKubernetes", "hasCI"}

BackendLists == {"database", "authentication", "caching", "messaging", "search", "monitoring",
                 "configFiles", "entryPoints", "apiRoutes", "models"}

UnknownFramework == [name |-> "Unknown", server |-> "undefined"]

createBackendAnalysisBase ==
    [framework |-> UnknownFramework,
     lists |-> [l \in BackendLists |-> <<>>],
     features |-> [f \in BackendFlags |-> FALSE],
     deployment |-> [f \in DeploymentFlags |-> FALSE],
     cloudProvider |-> "undefined",
     frameworks |-> <<>>,
     runtimes |-> <<>>,
     servers |-> <<>>,
     runtime |-> "undefined",
     server |-> "undefined",
     orm |-> "undefined"]

Supplies(source, field) == field \in DOMAIN source

\* push every item, present or not
concatList(target, source) == target \o source

\* mergeList and the includes/push loops: append what is not yet there
RECURSIVE mergeList(_, _)
mergeList(target, source) ==
    IF source = <<>> THEN target
    ELSE mergeList(IF Head(source) \in Range(target) THEN target
                   ELSE Append(target, Head(source)), Tail(source))

HasName(frameworks, name) == \E i \in 1..Len(frameworks) : frameworks[i].name = name

RECURSIVE mergeFrameworkList(_, _)
mergeFrameworkList(target, source) ==
    IF source = <<>> THEN target
    ELSE LET fw == Head(source)
         IN  mergeFrameworkList(
                IF fw.name \in {"undefined", "Unknown"} \/ HasName(target, fw.name)
                THEN target ELSE Append(target, fw),
                Tail(source))

\* target.flag = source.flag
AssignFlags(flags, target, source) ==
    [f \in flags \cap DOMAIN source |-> source[f]]

\* target.flag ||= source.flag, for every flag of the set
OrAssign(flags, target, source) ==
    [f \in {g \in flags : (g \in DOMAIN target /\ target[g]) \/ g \in DOMAIN source} |->
        IF f \in DOMAIN target /\ target[f] THEN TRUE ELSE source[f]]

mergeBackendAnalysis(target, source) ==
    LET named == /\ Supplies(source, "framework")
                 /\ source.framework.name \notin {"undefined", "Unknown"}
        t1 == IF named
              THEN [target EXCEPT
                       !.framework = source.framework,
                       !.frameworks = IF HasName(@, source.framework.name) THEN @
                                      ELSE Append(@, source.framework),
                       !.server = IF source.framework.server # "undefined" /\ @ = "undefined"
                                  THEN source.framework.server ELSE @]
              ELSE target
        t2 == IF Supplies(source, "frameworks")
              THEN [t1 EXCEPT !.frameworks = mergeFrameworkList(@, source.frameworks)]
              ELSE t1
        t3 == IF Supplies(source, "runtime") /\ source.runtime # "undefined"
              THEN [t2 EXCEPT !.runtime = source.runtime,
                              !.runtimes = mergeList(@, <<source.runtime>>)]
              ELSE t2
        t4 == IF Supplies(source, "runtimes")
              THEN [t3 EXCEPT !.runtimes = mergeList(@, source.runtimes)]
              ELSE t3
        t5 == IF Supplies(source, "server") /\ source.server # "undefined"
              THEN [t4 EXCEPT !.server = source.server,
                              !.servers = mergeList(@, <<source.server>>)]
              ELSE t4
        t6 == IF Supplies(source, "servers")
              THEN [t5 EXCEPT !.servers = mergeList(@, source.servers)]
              ELSE t5
        t7 == [t6 EXCEPT !.lists = [l \in BackendLists |->
                                       IF Supplies(source, l) THEN mergeList(@[l], source[l])
                                       ELSE @[l]]]
        t8 == IF Supplies(source, "features")
              THEN [t7 EXCEPT !.features = OrAssign(BackendFlags, @, source.features)]
              ELSE t7
        t9 == IF Supplies(source, "deployment")
              THEN [t8 EXCEPT
                       !.deployment = OrAssign(DeploymentFlags, @, source.deployment),
                       !.cloudProvider =
                           IF @ = "undefined" /\ Supplies(source.deployment, "cloudProvider")
                           THEN source.deployment.cloudProvider ELSE @]
              ELSE t8
    IN  IF Supplies(source, "orm") /\ source.orm # "undefined"
        THEN [t9 EXCEPT !.orm = source.orm]
        ELSE t9

\* detectRuntimeAndFramework: the marker files of each runtime, in the order
\* of the checks
runtimeChecks ==
    << [files |-> {"package.json"}, runtime |-> "Node.js"],
       [files |-> {"requirements.txt", "pyproject.toml", "setup.py"}, runtime |-> "Python"],
       [files |-> {"pom.xml", "build.gradle", "build.sbt"}, runtime |-> "Java"],
       [files |-> {"go.mod", "go.sum"}, runtime |-> "Go"],
       [files |-> {"Cargo.toml", "Cargo.lock"}, runtime |-> "Rust"],
       [files |-> {"composer.json", "composer.lock"}, runtime |-> "PHP"],
       [files |-> {"Gemfile", "Gemfile.lock"}, runtime |-> "Ruby"],
       [files |-> {"app.csproj", "app.sln", "app.fsproj"}, runtime |-> ".NET"] >>

detectRuntimes(files) ==
    LET hits == SelectSeq(runtimeChecks, LAMBDA check : check.files \cap files # {})
    IN  [i \in 1..Len(hits) |-> hits[i].runtime]

RuntimePriority == <<"Node.js", "Python", "Java", "Go", "Rust", "PHP", "Ruby", ".NET">>

pickLastRuntime(runtimes) == runtimes[Len(runtimes)]

pickPrimaryRuntime(runtimes) ==
    LET hits == SelectSeq(RuntimePriority, LAMBDA r : r \in Range(runtimes))
    IN  IF hits # <<>> THEN hits[1] ELSE runtimes[1]

\* `${framework.name} (TypeScript)`
TypeScriptName(name) ==
    CASE name = "Express.js" -> "Express.js (TypeScript)"
      [] name = "Koa" -> "Koa (TypeScript)"
      [] name = "Fastify" -> "Fastify (TypeScript)"
      [] name = "NestJS" -> "NestJS (TypeScript)"
      [] name = "Hapi" -> "Hapi (TypeScript)"
      [] name = "Sails.js" -> "Sails.js (TypeScript)"
      [] name = "Meteor" -> "Meteor (TypeScript)"
      [] name = "AdonisJS" -> "AdonisJS (TypeScript)"
      [] OTHER -> "LoopBack (TypeScript)"

NodeSignals ==
    << [dep |-> "express", name |-> "Express.js", server |-> "Express"],
       [dep |-> "koa", name |-> "Koa", server |-> "Koa"],
       [dep |-> "fastify", name |-> "Fastify", server |-> "Fastify"],
       [dep |-> "@nestjs/core", name |-> "NestJS", server |-> "Express/Fastify"],
       [dep |-> "@hapi/hapi", name |-> "Hapi", server |-> "Hapi"],
       [dep |-> "sails", name |-> "Sails.js", server |-> "Express"],
       [dep |-> "meteor", name |-> "Meteor", server |-> "undefined"],
       [dep |-> "@adonisjs/core", name |-> "AdonisJS", server |-> "Adonis"],
       [dep |-> "@loopback/core", name |-> "LoopBack", server |-> "Express"] >>

\* detectNodeFrameworks; deps is empty when package.json cannot be read
detectNodeFrameworks(hasPackageJson, deps) ==
    LET hits == SelectSeq(NodeSignals, LAMBDA sig : hasPackageJson /\ sig.dep \in deps)
        serverless == Has(deps, {"serverless", "@serverless/framework"})
    IN  [i \in 1..Len(hits) |->
            [name |-> IF "typescript" \in deps THEN TypeScriptName(hits[i].name)
                      ELSE hits[i].name,
             server |-> IF serverless /\ hits[i].server = "undefined" THEN "Serverless"
                        ELSE hits[i].server]]

BackendPriority == <<"NestJS", "Express.js", "Fastify", "Koa", "Hapi", "Sails.js", "AdonisJS",
                     "LoopBack", "Meteor">>

\* backend.ts pickPrimaryFramework: the first priority name that a framework
\* bears, alone or followed by ' (TypeScript)'; "undefined" for no framework
pickPrimaryBackendFramework(frameworks) ==
    IF frameworks = <<>> THEN [name |-> "undefined", server |-> "undefined"]
    ELSE LET Bears(fw, name) == fw.name = name \/ fw.name = TypeScriptName(name)
             hits == SelectSeq(BackendPriority,
                               LAMBDA name : \E i \in 1..Len(frameworks) :
                                                Bears(frameworks[i], name))
         IN  IF hits = <<>> THEN frameworks[1]
             ELSE frameworks[CHOOSE i \in 1..Len(frameworks) :
                                /\ Bears(frameworks[i], hits[1])
                                /\ \A j \in 1..(i - 1) : ~Bears(frameworks[j], hits[1])]

\* detectPythonFramework: the first branch of the else-if chain over the
\* lines of requirements.txt, then manage.py when nothing was named
detectPythonFramework(files, reqs) ==
    LET lines == IF "requirements.txt" \in files THEN reqs ELSE {}
    IN  CASE "django" \in lines -> [name |-> "Django", server |-> "Django"]
          [] "flask" \in lines -> [name |-> "Flask", server |-> "Werkzeug"]
          [] "fastapi" \in lines -> [name |-> "FastAPI", server |-> "Uvicorn"]
          [] "pyramid" \in lines -> [name |-> "Pyramid", server |-> "Pyramid"]
          [] "tornado" \in lines -> [name |-> "Tornado", server |-> "Tornado"]
          [] "manage.py" \in files -> [name |-> "Django", server |-> "Django"]
          [] OTHER -> [name |-> "undefined", server |-> "undefined"]

\* detectGoFramework: the first branch of the else-if chain over go.mod
detectGoFramework(files, goMod) ==
    LET content == IF "go.mod" \in files THEN goMod ELSE {}
    IN  CASE "github.com/gin-gonic/gin" \in content -> [name |-> "Gin", server |-> "Gin"]
          [] "github.com/labstack/echo" \in content -> [name |-> "Echo", server |-> "Echo"]
          [] "github.com/gorilla/mux" \in content ->
                [name |-> "Gorilla Mux", server |-> "net/http"]
          [] "github.com/gofiber/fiber" \in content -> [name |-> "Fiber", server |-> "Fiber"]
          [] "github.com/astaxie/beego" \in content -> [name |-> "Beego", server |-> "Beego"]
          [] "github.com/revel/revel" \in content -> [name |-> "Revel", server |-> "Revel"]
          [] "net/http" \in content -> [name |-> "net/http", server |-> "net/http"]
          [] OTHER -> [name |-> "undefined", server |-> "undefined"]

\* detectFrameworkByRuntime; the manifests of the Java, Rust, PHP, Ruby and
\* .NET projects of the model name no framework
detectFrameworkByRuntime(runtime, files, deps, reqs, goMod) ==
    LET single(fw) == [primary |-> fw,
                       frameworks |-> IF fw.name # "undefined" THEN <<fw>> ELSE <<>>]
    IN  CASE runtime = "Node.js" ->
                LET frameworks == detectNodeFrameworks("package.json" \in files, deps)
                IN  [primary |-> pickPrimaryBackendFramework(frameworks),
                     frameworks |-> frameworks]
          [] runtime = "Python" -> single(detectPythonFramework(files, reqs))
          [] runtime = "Go" -> single(detectGoFramework(files, goMod))
          [] OTHER -> single([name |-> "undefined", server |-> "undefined"])

detectRuntimeAndFramework(files, deps, reqs, goMod) ==
    LET runtimes == detectRuntimes(files)
    IN  IF runtimes = <<>> THEN <<>>
        ELSE LET runtime == pickPrimaryRuntime(runtimes)
                 fd == detectFrameworkByRuntime(runtime, files, deps, reqs, goMod)
                 base == [runtimes |-> runtimes, runtime |-> runtime]
                 withPrimary == IF fd.primary.name # "undefined"
                                THEN base @@ [framework |-> fd.primary] ELSE base
             IN  IF fd.frameworks # <<>>
                 THEN withPrimary @@ [frameworks |-> fd.frameworks] ELSE withPrimary

Opt(cond, x) == IF cond THEN <<x>> ELSE <<>>

\* backend.ts analyzeDependencies (phase 2): package.json is consulted for
\* the Node.js runtime or a Node framework label
analyzeBackendDependencies(files, deps, runtime, frameworkName) ==
    LET isNodeFramework == frameworkName \in
            {"Express.js", "NestJS", "Koa", "Fastify", "Express.js (TypeScript)",
             "NestJS (TypeScript)", "Koa (TypeScript)", "Fastify (TypeScript)"}
        d == IF (runtime = "Node.js" \/ isNodeFramework) /\ "package.json" \in files
             THEN deps ELSE {}
    IN  [authentication |-> Opt(Has(d, {"passport", "jsonwebtoken", "bcrypt"}), "JWT/Passport")
                            \o Opt("auth0" \in d, "Auth0")
                            \o Opt("firebase-admin" \in d, "Firebase")
                            \o Opt("@azure/msal-node" \in d, "Azure AD"),
         caching |-> Opt(Has(d, {"redis", "ioredis"}), "Redis")
                     \o Opt("memcached" \in d, "Memcached")
                     \o Opt(Has(d, {"node-cache", "memory-cache"}), "In-memory"),
         messaging |-> Opt(Has(d, {"bull", "bullmq"}), "Bull (Redis)")
                       \o Opt(Has(d, {"amqplib", "rhea"}), "RabbitMQ")
                       \o Opt("kafkajs" \in d, "Kafka")
                       \o Opt(Has(d, {"sqs-consumer", "@aws-sdk/client-sqs"}), "AWS SQS"),
         search |-> Opt("@elastic/elasticsearch" \in d, "Elasticsearch")
                    \o Opt("algoliasearch" \in d, "Algolia"),
         monitoring |-> Opt(Has(d, {"winston", "pino"}), "Structured Logging")
                        \o Opt("prom-client" \in d, "Prometheus")
                        \o Opt("@opentelemetry/api" \in d, "OpenTelemetry")
                        \o Opt("sentry" \in d, "Sentry"),
         features |-> [f \in BackendFlags |->
                          CASE f = "hasGraphQL" -> Has(d, {"graphql", "apollo-server"})
                            [] f = "hasWebSockets" -> Has(d, {"socket.io", "ws"})
                            [] f = "hasTesting" -> Has(d, {"jest", "mocha", "chai", "supertest"})
                            [] OTHER -> FALSE]]

\* detectDatabasesAndORMs (phase 3): { database: [...new Set(databases)], orm };
\* the projects of the model hold no .env file
detectDatabasesAndORMs(files, deps, reqs) ==
    LET d == IF "package.json" \in files THEN deps ELSE {}
        r == IF "requirements.txt" \in files THEN reqs ELSE {}
        node == Opt("mongoose" \in d, "MongoDB")
                \o Opt("typeorm" \in d, "PostgreSQL/MySQL/SQLite")
                \o Opt("sequelize" \in d, "PostgreSQL/MySQL/MariaDB/SQLite")
                \o Opt("prisma" \in d, "PostgreSQL/MySQL/SQLite/MongoDB")
                \o Opt(Has(d, {"redis", "ioredis"}), "Redis")
                \o Opt("@elastic/elasticsearch" \in d, "Elasticsearch")
                \o Opt(Has(d, {"mysql2", "mysql"}), "MySQL")
                \o Opt(Has(d, {"pg", "postgres"}), "PostgreSQL")
                \o Opt("sqlite3" \in d, "SQLite")
                \o Opt("mongodb" \in d, "MongoDB")
                \o Opt("cassandra-driver" \in d, "Cassandra")
        python == Opt(Has(r, {"django.db", "psycopg2", "mysqlclient"}), "PostgreSQL/MySQL")
                  \o Opt("pymongo" \in r, "MongoDB")
                  \o Opt("redis" \in r, "Redis")
        nodeOrm == CASE "prisma" \in d -> "Prisma"
                     [] "sequelize" \in d -> "Sequelize"
                     [] "typeorm" \in d -> "TypeORM"
                     [] "mongoose" \in d -> "Mongoose"
                     [] OTHER -> "undefined"
    IN  [database |-> mergeList(<<>>, node \o python),
         orm |-> CASE "sqlalchemy" \in r -> "SQLAlchemy"
                   [] Has(r, {"django.db", "psycopg2", "mysqlclient"}) -> "Django ORM"
                   [] OTHER -> nodeOrm]

\* analyzeBackendStructure (phase 4), as far as the files of the model go
analyzeBackendStructure(files) ==
    [entryPoints |-> Opt("server.js" \in files, "server.js"),
     apiRoutes |-> <<>>,
     models |-> <<>>]

\* detectDeploymentConfig (phase 6)
detectDeploymentConfig(files) ==
    [f \in DeploymentFlags |->
        CASE f = "hasDocker" -> Has(files, {"Dockerfile", "docker-compose.yml"})
          [] f = "hasKubernetes" -> Has(files, {"deployment.yaml", "service.yaml"})
          [] OTHER -> Has(files, {".gitlab-ci.yml", "Jenkinsfile"})]

\* verifyBackendByFiles (phase 7): all ten flags, from file-name patterns
verifyBackendByFiles(files) ==
    [features |-> [f \in BackendFlags |->
                      CASE f = "hasREST" -> Has(files, {"routes.js", "api.js"})
                        [] f = "hasGraphQL" -> Has(files, {"schema.graphql"})
                        [] f = "hasWebSockets" -> Has(files, {"socket.js"})
                        [] f = "hasQueue" -> Has(files, {"worker.js"})
                        [] f = "hasCronJobs" -> Has(files, {"cron.js"})
                        [] f = "hasFileUpload" -> Has(files, {"upload.js"})
                        [] f = "hasValidation" -> Has(files, {"validation.js"})
                        [] f = "hasTesting" -> Has(files, {"app.test.js"})
                        [] f = "hasDocumentation" -> Has(files, {"README.md"})
                        [] OTHER -> FALSE]]

\* detectAPIPatterns (phase 8): starts from {} and only ever sets a flag to
\* true; rest says that a sampled source file holds a REST route call
detectAPIPatterns(files, rest) ==
    IF rest /\ Has(files, {"routes.js", "api.js", "server.js"})
    THEN [f \in {"hasREST"} |-> TRUE]
    ELSE <<>>

BeIdle ==
    /\ bePc = "off"
    /\ beFiles = {}
    /\ beDeps = {}
    /\ beReqs = {}
    /\ beGoMod = {}
    /\ beMerged = <<>>
    /\ beAnalysis = createBackendAnalysisBase

(***************************************************************************)
(* dependency.ts: the classification of a dependency name.  A name is the  *)
(* sequence of its characters.                                             *)
(***************************************************************************)
DEPENDENCY_CATEGORIES ==
    [REACT |-> "React Ecosystem",
     VUE |-> "Vue Ecosystem",
     ANGULAR |-> "Angular Ecosystem",
     SVELTE |-> "Svelte Ecosystem",
     BUILD_TOOL |-> "Build Tool",
     BUNDLER |-> "Bundler",
     COMPILER |-> "Compiler",
     TRANSPILER |-> "Transpiler",
     CSS_FRAMEWORK |-> "CSS Framework",
     CSS_IN_JS |-> "CSS-in-JS",
     UI_LIBRARY |-> "UI Component Library",
     ICON_LIBRARY |-> "Icon Library",
     STATE_MANAGEMENT |-> "State Management",
     ROUTING |-> "Routing",
     DATA_FETCHING |-> "Data Fetching",
     GRAPHQL |-> "GraphQL",
     TESTING |-> "Testing Framework",
     ASSERTION |-> "Assertion Library",
     MOCKING |-> "Mocking Library",
     E2E |-> "End-to-End Testing",
     COVERAGE |-> "Code Coverage",
     LINTER |-> "Linter",
     FORMATTER |-> "Code Formatter",
     TYPE_CHECKER |-> "Type Checker",
     SERVER |-> "Server Framework",
     DATABASE |-> "Database",
     ORM |-> "ORM",
     AUTH |-> "Authentication",
     VALIDATION |-> "Validation",
     UTILITY |-> "Utility Library",
     DATE |-> "Date Manipulation",
     HTTP_CLIENT |-> "HTTP Client",
     LOGGING |-> "Logging",
     DEVELOPMENT |-> "Development Tool",
     HOT_RELOAD |-> "Hot Reload",
     DEBUGGING |-> "Debugging",
     TYPES |-> "Type Definitions",
     OTHER_ |-> "Other"]

\* the table as Object.keys / Object.entries enumerate it: in source order
PACKAGE_CATEGORIES == <<
    [key |-> <<"r", "e", "a", "c", "t">>, category |-> DEPENDENCY_CATEGORIES.REACT],
    [key |-> <<"r", "e", "a", "c", "t", "-", "d", "o", "m">>, category |-> DEPENDENCY_CATEGORIES.REACT],
    [key |-> <<"r", "e", "a", "c", "t", "-", "r", "o", "u", "t", "e", "r">>, category |-> DEPENDENCY_CATEGORIES.ROUTING],
    [key |-> <<"r", "e", "a", "c", "t", "-", "r", "o", "u", "t", "e", "r", "-", "d", "o", "m">>, category |-> DEPENDENCY_CATEGORIES.ROUTING],
    [key |-> <<"r", "e", "d", "u", "x">>, category |-> DEPENDENCY_CATEGORIES.STATE_MANAGEMENT],
    [key |-> <<"m", "o", "b", "x">>, category |-> DEPENDENCY_CATEGORIES.STATE_MANAGEMENT],
    [key |-> <<"z", "u", "s", "t", "a", "n", "d">>, category |-> DEPENDENCY_CATEGORIES.STATE_MANAGEMENT],
    [key |-> <<"n", "e", "x", "t">>, category |-> DEPENDENCY_CATEGORIES.BUILD_TOOL],
    [key |-> <<"g", "a", "t", "s", "b", "y">>, category |-> DEPENDENCY_CATEGORIES.BUILD_TOOL],
    [key |-> <<"r", "e", "m", "i", "x">>, category |-> DEPENDENCY_CATEGORIES.BUILD_TOOL],
    [key |-> <<"v", "u", "e">>, category |-> DEPENDENCY_CATEGORIES.VUE],
    [key |-> <<"v", "u", "e", "-", "r", "o", "u", "t", "e", "r">>, category |-> DEPENDENCY_CATEGORIES.ROUTING],
    [key |-> <<"v", "u", "e", "x">>, category |-> DEPENDENCY_CATEGORIES.STATE_MANAGEMENT],
    [key |-> <<"p", "i", "n", "i", "a">>, category |-> DEPENDENCY_CATEGORIES.STATE_MANAGEMENT],
    [key |-> <<"n", "u", "x", "t">>, category |-> DEPENDENCY_CATEGORIES.BUILD_TOOL],
    [key |-> <<"@", "a", "n", "g", "u", "l", "a", "r", "/", "c", "o", "r", "e">>, category |-> DEPENDENCY_CATEGORIES.ANGULAR],
    [key |-> <<"@", "a", "n", "g", "u", "l", "a", "r", "/", "c", "o", "m", "m", "o", "n">>, category |-> DEPENDENCY_CATEGORIES.ANGULAR],
    [key |-> <<"s", "v", "e", "l", "t", "e">>, category |-> DEPENDENCY_CATEGORIES.SVELTE],
    [key |-> <<"s", "v", "e", "l", "t", "e", "k", "i", "t">>, category |-> DEPENDENCY_CATEGORIES.BUILD_TOOL],
    [key |-> <<"w", "e", "b", "p", "a", "c", "k">>, category |-> DEPENDENCY_CATEGORIES.BUNDLER],
    [key |-> <<"v", "i", "t", "e">>, category |-> DEPENDENCY_CATEGORIES.BUNDLER],
    [key |-> <<"r", "o", "l", "l", "u", "p">>, category |-> DEPENDENCY_CATEGORIES.BUNDLER],
    [key |-> <<"p", "a", "r", "c", "e", "l">>, category |-> DEPENDENCY_CATEGORIES.BUNDLER],
    [key |-> <<"e", "s", "b", "u", "i", "l", "d">>, category |-> DEPENDENCY_CATEGORIES.BUNDLER],
    [key |-> <<"b", "a", "b", "e", "l">>, category |-> DEPENDENCY_CATEGORIES.TRANSPILER],
    [key |-> <<"t", "y", "p", "e", "s", "c", "r", "i", "p", "t">>, category |-> DEPENDENCY_CATEGORIES.COMPILER],
    [key |-> <<"s", "w", "c">>, category |-> DEPENDENCY_CATEGORIES.COMPILER],
    [key |-> <<"t", "a", "i", "l", "w", "i", "n", "d", "c", "s", "s">>, category |-> DEPENDENCY_CATEGORIES.CSS_FRAMEWORK],
    [key |-> <<"b", "o", "o", "t", "s", "t", "r", "a", "p">>, category |-> DEPENDENCY_CATEGORIES.CSS_FRAMEWORK],
    [key |-> <<"m", "a", "t", "e", "r", "i", "a", "l", "-", "u", "i">>, category |-> DEPENDENCY_CATEGORIES.UI_LIBRARY],
    [key |-> <<"@", "m", "u", "i", "/", "m", "a", "t", "e", "r", "i", "a", "l">>, category |-> DEPENDENCY_CATEGORIES.UI_LIBRARY],
    [key |-> <<"a", "n", "t", "d">>, category |-> DEPENDENCY_CATEGORIES.UI_LIBRARY],
    [key |-> <<"c", "h", "a", "k", "r", "a", "-", "u", "i">>, category |-> DEPENDENCY_CATEGORIES.UI_LIBRARY],
    [key |-> <<"s", "t", "y", "l", "e", "d", "-", "c", "o", "m", "p", "o", "n", "e", "n", "t", "s">>, category |-> DEPENDENCY_CATEGORIES.CSS_IN_JS],
    [key |-> <<"e", "m", "o", "t", "i", "o", "n">>, category |-> DEPENDENCY_CATEGORIES.CSS_IN_JS],
    [key |-> <<"s", "a", "s", "s">>, category |-> DEPENDENCY_CATEGORIES.CSS_FRAMEWORK],
    [key |-> <<"l", "e", "s", "s">>, category |-> DEPENDENCY_CATEGORIES.CSS_FRAMEWORK],
    [key |-> <<"j", "e", "s", "t">>, category |-> DEPENDENCY_CATEGORIES.TESTING],
    [key |-> <<"v", "i", "t", "e", "s", "t">>, category |-> DEPENDENCY_CATEGORIES.TESTING],
    [key |-> <<"m", "o", "c", "h", "a">>, category |-> DEPENDENCY_CATEGORIES.TESTING],
    [key |-> <<"j", "a", "s", "m", "i", "n", "e">>, category |-> DEPENDENCY_CATEGORIES.TESTING],
    [key |-> <<"c", "y", "p", "r", "e", "s", "s">>, category |-> DEPENDENCY_CATEGORIES.E2E],
    [key |-> <<"p", "l", "a", "y", "w", "r", "i", "g", "h", "t">>, category |-> DEPENDENCY_CATEGORIES.E2E],
    [key |-> <<"p", "u", "p", "p", "e", "t", "e", "e", "r">>, category |-> DEPENDENCY_CATEGORIES.E2E],
    [key |-> <<"@", "t", "e", "s", "t", "i", "n", "g", "-", "l", "i", "b", "r", "a", "r", "y", "/", "r", "e", "a", "c", "t">>, category |-> DEPENDENCY_CATEGORIES.TESTING],
    [key |-> <<"@", "t", "e", "s", "t", "i", "n", "g", "-", "l", "i", "b", "r", "a", "r", "y", "/", "v", "u", "e">>, category |-> DEPENDENCY_CATEGORIES.TESTING],
    [key |-> <<"@", "t", "e", "s", "t", "i", "n", "g", "-", "l", "i", "b", "r", "a", "r", "y", "/", "a", "n", "g", "u", "l", "a", "r">>, category |-> DEPENDENCY_CATEGORIES.TESTING],
    [key |-> <<"e", "n", "z", "y", "m", "e">>, category |-> DEPENDENCY_CATEGORIES.TESTING],
    [key |-> <<"c", "h", "a", "i">>, category |-> DEPENDENCY_CATEGORIES.ASSERTION],
    [key |-> <<"s", "i", "n", "o", "n">>, category |-> DEPENDENCY_CATEGORIES.MOCKING],
    [key |-> <<"e", "s", "l", "i", "n", "t">>, category |-> DEPENDENCY_CATEGORIES.LINTER],
    [key |-> <<"p", "r", "e", "t", "t", "i", "e", "r">>, category |-> DEPENDENCY_CATEGORIES.FORMATTER],
    [key |-> <<"s", "t", "y", "l", "e", "l", "i", "n", "t">>, category |-> DEPENDENCY_CATEGORIES.LINTER],
    [key |-> <<"@", "t", "y", "p", "e", "s", "c", "r", "i", "p", "t", "-", "e", "s", "l", "i", "n", "t", "/", "e", "s", "l", "i", "n", "t", "-", "p", "l", "u", "g", "i", "n">>, category |-> DEPENDENCY_CATEGORIES.LINTER],
    [key |-> <<"e", "x", "p", "r", "e", "s", "s">>, category |-> DEPENDENCY_CATEGORIES.SERVER],
    [key |-> <<"k", "o", "a">>, category |-> DEPENDENCY_CATEGORIES.SERVER],
    [key |-> <<"f", "a", "s", "t", "i", "f", "y">>, category |-> DEPENDENCY_CATEGORIES.SERVER],
    [key |-> <<"n", "e", "s", "t", "j", "s">>, category |-> DEPENDENCY_CATEGORIES.SERVER],
    [key |-> <<"m", "o", "n", "g", "o", "o", "s", "e">>, category |-> DEPENDENCY_CATEGORIES.ORM],
    [key |-> <<"p", "r", "i", "s", "m", "a">>, category |-> DEPENDENCY_CATEGORIES.ORM],
    [key |-> <<"t", "y", "p", "e", "o", "r", "m">>, category |-> DEPENDENCY_CATEGORIES.ORM],
    [key |-> <<"s", "e", "q", "u", "e", "l", "i", "z", "e">>, category |-> DEPENDENCY_CATEGORIES.ORM],
    [key |-> <<"p", "a", "s", "s", "p", "o", "r", "t">>, category |-> DEPENDENCY_CATEGORIES.AUTH],
    [key |-> <<"j", "s", "o", "n", "w", "e", "b", "t", "o", "k", "e", "n">>, category |-> DEPENDENCY_CATEGORIES.AUTH],
    [key |-> <<"j", "o", "i">>, category |-> DEPENDENCY_CATEGORIES.VALIDATION],
    [key |-> <<"y", "u", "p">>, category |-> DEPENDENCY_CATEGORIES.VALIDATION],
    [key |-> <<"z", "o", "d">>, category |-> DEPENDENCY_CATEGORIES.VALIDATION],
    [key |-> <<"l", "o", "d", "a", "s", "h">>, category |-> DEPENDENCY_CATEGORIES.UTILITY],
    [key |-> <<"u", "n", "d", "e", "r", "s", "c", "o", "r", "e">>, category |-> DEPENDENCY_CATEGORIES.UTILITY],
    [key |-> <<"m", "o", "m", "e", "n", "t">>, category |-> DEPENDENCY_CATEGORIES.DATE],
    [key |-> <<"d", "a", "y", "j", "s">>, category |-> DEPENDENCY_CATEGORIES.DATE],
    [key |-> <<"d", "a", "t", "e", "-", "f", "n", "s">>, category |-> DEPENDENCY_CATEGORIES.DATE],
    [key |-> <<"a", "x", "i", "o", "s">>, category |-> DEPENDENCY_CATEGORIES.HTTP_CLIENT],
    [key |-> <<"n", "o", "d", "e", "-", "f", "e", "t", "c", "h">>, category |-> DEPENDENCY_CATEGORIES.HTTP_CLIENT],
    [key |-> <<"w", "i", "n", "s", "t", "o", "n">>, category |-> DEPENDENCY_CATEGORIES.LOGGING],
    [key |-> <<"p", "i", "n", "o">>, category |-> DEPENDENCY_CATEGORIES.LOGGING],
    [key |-> <<"g", "r", "a", "p", "h", "q", "l">>, category |-> DEPENDENCY_CATEGORIES.GRAPHQL],
    [key |-> <<"a", "p", "o", "l", "l", "o", "-", "s", "e", "r", "v", "e", "r">>, category |-> DEPENDENCY_CATEGORIES.GRAPHQL],
    [key |-> <<"a", "p", "o", "l", "l", "o", "-", "c", "l", "i", "e", "n", "t">>, category |-> DEPENDENCY_CATEGORIES.GRAPHQL],
    [key |-> <<"w", "e", "b", "p", "a", "c", "k", "-", "d", "e", "v", "-", "s", "e", "r", "v", "e", "r">>, category |-> DEPENDENCY_CATEGORIES.DEVELOPMENT],
    [key |-> <<"n", "o", "d", "e", "m", "o", "n">>, category |-> DEPENDENCY_CATEGORIES.DEVELOPMENT],
    [key |-> <<"c", "o", "n", "c", "u", "r", "r", "e", "n", "t", "l", "y">>, category |-> DEPENDENCY_CATEGORIES.DEVELOPMENT],
    [key |-> <<"d", "o", "t", "e", "n", "v">>, category |-> DEPENDENCY_CATEGORIES.DEVELOPMENT],
    [key |-> <<"@", "t", "y", "p", "e", "s", "/", "n", "o", "d", "e">>, category |-> DEPENDENCY_CATEGORIES.TYPES],
    [key |-> <<"@", "t", "y", "p", "e", "s", "/", "r", "e", "a", "c", "t">>, category |-> DEPENDENCY_CATEGORIES.TYPES],
    [key |-> <<"@", "t", "y", "p", "e", "s", "/", "j", "e", "s", "t">>, category |-> DEPENDENCY_CATEGORIES.TYPES]
    >>

\* String.prototype.startsWith and String.prototype.includes
startsWith(s, p) == Len(p) <= Len(s) /\ SubSeq(s, 1, Len(p)) = p

includes(s, sub) ==
    \E i \in 1..(Len(s) - Len(sub) + 1) : SubSeq(s, i, i + Len(sub) - 1) = sub

lowerCased(name) == [i \in 1..Len(name) |-> toLowerCase(name[i])]

\* key.replace('/*', ''): the first occurrence of "/*" is removed
replaceScopeGlob(key) ==
    LET hits == {i \in 1..(Len(key) - 1) : key[i] = "/" /\ key[i + 1] = "*"}
    IN  IF hits = {} THEN key
        ELSE LET i == CHOOSE h \in hits : \A j \in hits : h <= j
             IN  SubSeq(key, 1, i - 1) \o SubSeq(key, i + 2, Len(key))

\* a name that is no category of the table
guessOther(name) == DEPENDENCY_CATEGORIES.OTHER_

\* the keyword heuristic, in the order of its if-statements
guessCategoryFromName(name) ==
    LET nameLower == lowerCased(name)
    IN  IF includes(nameLower, <<"t", "e", "s", "t">>) \/ includes(nameLower, <<"s", "p", "e", "c">>)
        THEN DEPENDENCY_CATEGORIES.TESTING
        ELSE IF includes(nameLower, <<"a", "s", "s", "e", "r", "t">>) \/ includes(nameLower, <<"e", "x", "p", "e", "c", "t">>)
        THEN DEPENDENCY_CATEGORIES.ASSERTION
        ELSE IF includes(nameLower, <<"m", "o", "c", "k">>) \/ includes(nameLower, <<"s", "t", "u", "b">>)
        THEN DEPENDENCY_CATEGORIES.MOCKING
        ELSE IF startsWith(nameLower, <<"@", "t", "y", "p", "e", "s", "/">>)
        THEN DEPENDENCY_CATEGORIES.TYPES
        ELSE IF includes(nameLower, <<"c", "s", "s">>) \/ includes(nameLower, <<"s", "t", "y", "l", "e">>)
        THEN DEPENDENCY_CATEGORIES.CSS_FRAMEWORK
        ELSE IF includes(nameLower, <<"u", "i">>) \/ includes(nameLower, <<"c", "o", "m", "p", "o", "n", "e", "n", "t">>)
        THEN DEPENDENCY_CATEGORIES.UI_LIBRARY
        ELSE IF includes(nameLower, <<"i", "c", "o", "n">>)
        THEN DEPENDENCY_CATEGORIES.ICON_LIBRARY
        ELSE IF includes(nameLower, <<"d", "a", "t", "e">>) \/ includes(nameLower, <<"t", "i", "m", "e">>)
        THEN DEPENDENCY_CATEGORIES.DATE
        ELSE IF includes(nameLower, <<"f", "e", "t", "c", "h">>) \/ includes(nameLower, <<"h", "t", "t", "p">>) \/ includes(nameLower, <<"r", "e", "q", "u", "e", "s", "t">>)
        THEN DEPENDENCY_CATEGORIES.HTTP_CLIENT
        ELSE IF includes(nameLower, <<"l", "o", "g">>)
        THEN DEPENDENCY_CATEGORIES.LOGGING
        ELSE IF includes(nameLower, <<"d", "b">>) \/ includes(nameLower, <<"d", "a", "t", "a", "b", "a", "s", "e">>) \/ includes(nameLower, <<"s", "q", "l">>)
        THEN DEPENDENCY_CATEGORIES.DATABASE
        ELSE IF includes(nameLower, <<"a", "u", "t", "h">>) \/ includes(nameLower, <<"j", "w", "t">>) \/ includes(nameLower, <<"o", "a", "u", "t", "h">>)
        THEN DEPENDENCY_CATEGORIES.AUTH
        ELSE IF includes(nameLower, <<"v", "a", "l", "i", "d">>) \/ includes(nameLower, <<"s", "c", "h", "e", "m", "a">>)
        THEN DEPENDENCY_CATEGORIES.VALIDATION
        ELSE IF includes(nameLower, <<"b", "u", "i", "l", "d">>) \/ includes(nameLower, <<"c", "o", "m", "p", "i", "l", "e">>)
        THEN DEPENDENCY_CATEGORIES.BUILD_TOOL
        ELSE IF includes(nameLower, <<"d", "e", "v">>) \/ includes(nameLower, <<"w", "a", "t", "c", "h">>) \/ includes(nameLower, <<"h", "o", "t">>)
        THEN DEPENDENCY_CATEGORIES.DEVELOPMENT
        ELSE DEPENDENCY_CATEGORIES.OTHER_

\* the entries of the table picked by the three lookups of
\* createDependencyObject, as positions in Object.keys order
exactMatches(name) ==
    {i \in DOMAIN PACKAGE_CATEGORIES : PACKAGE_CATEGORIES[i].key = name}

scopedMatches(name) ==
    {i \in DOMAIN PACKAGE_CATEGORIES :
        startsWith(name, replaceScopeGlob(PACKAGE_CATEGORIES[i].key))}

partialMatches(name) ==
    {i \in DOMAIN PACKAGE_CATEGORIES :
        \/ includes(name, PACKAGE_CATEGORIES[i].key)
        \/ startsWith(name, replaceScopeGlob(PACKAGE_CATEGORIES[i].key))}

\* Array.prototype.find and a for-loop left by break: the first position
firstOf(positions) == CHOOSE i \in positions : \A j \in positions : i <= j

\* createDependencyObject: the fields of the Dependency that depend on the
\* name (version is a copy of the version data, the other fields are '')
createDependencyObject(name) ==
    LET looked ==
            IF exactMatches(name) # {}
            THEN PACKAGE_CATEGORIES[firstOf(exactMatches(name))].category
            ELSE IF scopedMatches(name) # {}
            THEN PACKAGE_CATEGORIES[firstOf(scopedMatches(name))].category
            ELSE IF partialMatches(name) # {}
            THEN PACKAGE_CATEGORIES[firstOf(partialMatches(name))].category
            ELSE DEPENDENCY_CATEGORIES.OTHER_
    IN  [name |-> name,
         category |-> IF looked = DEPENDENCY_CATEGORIES.OTHER_
                      THEN guessCategoryFromName(name) ELSE looked]

\* the exported categorizeDependency
categorizeDependency(name) ==
    IF exactMatches(name) # {}
    THEN PACKAGE_CATEGORIES[firstOf(exactMatches(name))].category
    ELSE guessCategoryFromName(name)

DcIdle ==
    /\ dcName = <<>>
    /\ dcDependency = <<>>
    /\ dcCategorized = "undefined"

(***************************************************************************)
(* The language profiler: detectLanguages, analyzeLanguages, rankLanguages *)
(* and fallbackDetection.  A file is a record: its name, the lower-cased   *)
(* path.extname of the name, the interpreter named on its '#!' line (or    *)
(* "none"), whether fs.readFile succeeds on it, and the line count and     *)
(* byte length of its content.                                             *)
(***************************************************************************)
batchSize == 100

extensionMap(ext) ==
    CASE ext = ".js" -> "JavaScript"
      [] ext = ".jsx" -> "JavaScript"
      [] ext = ".mjs" -> "JavaScript"
      [] ext = ".cjs" -> "JavaScript"
      [] ext = ".ts" -> "TypeScript"
      [] ext = ".tsx" -> "TypeScript"
      [] ext = ".vue" -> "Vue"
      [] ext = ".svelte" -> "Svelte"
      [] ext = ".html" -> "HTML"
      [] ext = ".htm" -> "HTML"
      [] ext = ".css" -> "CSS"
      [] ext = ".scss" -> "SCSS"
      [] ext = ".sass" -> "SASS"
      [] ext = ".less" -> "LESS"
      [] ext = ".styl" -> "Stylus"
      [] ext = ".py" -> "Python"
      [] ext = ".java" -> "Java"
      [] ext = ".kt" -> "Kotlin"
      [] ext = ".scala" -> "Scala"
      [] ext = ".go" -> "Go"
      [] ext = ".rs" -> "Rust"
      [] ext = ".php" -> "PHP"
      [] ext = ".rb" -> "Ruby"
      [] ext = ".cs" -> "C#"
      [] ext = ".fs" -> "F#"
      [] ext = ".swift" -> "Swift"
      [] ext = ".c" -> "C"
      [] ext = ".cpp" -> "C++"
      [] ext = ".h" -> "C/C++ Header"
      [] ext = ".hpp" -> "C++ Header"
      [] ext = ".sh" -> "Shell"
      [] ext = ".bash" -> "Bash"
      [] ext = ".zsh" -> "Zsh"
      [] ext = ".ps1" -> "PowerShell"
      [] ext = ".bat" -> "Batch"
      [] ext = ".cmd" -> "Batch"
      [] ext = ".json" -> "JSON"
      [] ext = ".yaml" -> "YAML"
      [] ext = ".yml" -> "YAML"
      [] ext = ".toml" -> "TOML"
      [] ext = ".xml" -> "XML"
      [] ext = ".csv" -> "CSV"
      [] ext = ".md" -> "Markdown"
      [] ext = ".txt" -> "Text"
      [] ext = ".ini" -> "INI"
      [] ext = ".cfg" -> "Configuration"
      [] ext = ".conf" -> "Configuration"
      [] ext = ".sql" -> "SQL"
      [] ext = ".db" -> "Database"
      [] ext = ".sqlite" -> "SQLite"
      [] ext = ".dockerfile" -> "Docker"
      [] ext = ".lock" -> "Lock File"
      [] ext = ".gitignore" -> "Git Ignore"
      [] ext = ".editorconfig" -> "EditorConfig"
      [] ext = ".prettierrc" -> "Prettier"
      [] ext = ".eslintrc" -> "ESLint"
      [] OTHER -> "null"

\* the language of the '#!' line, in the order of the includes() tests
shebangLanguage(file) ==
    IF ~file.readable THEN "null"
    ELSE CASE file.shebang = "python" -> "Python"
           [] file.shebang = "node" -> "JavaScript"
           [] file.shebang = "bash" -> "Bash"
           [] file.shebang = "sh" -> "Shell"
           [] OTHER -> "null"

\* detectLanguageByFile resolves without reading the file for the three
\* special names and for every file with an extension
needsProbe(file) ==
    /\ file.name \notin {"dockerfile", "makefile", ".env"}
    /\ file.ext = ""

detectLanguageByFile(file) ==
    CASE file.name = "dockerfile" -> "Docker"
      [] file.name = "makefile" -> "Makefile"
      [] file.name = ".env" -> "Environment Variables"
      [] file.ext = "" -> shebangLanguage(file)
      [] OTHER -> extensionMap(file.ext)

\* LanguageStats is an object; its entries are kept in insertion order, as
\* Object.entries and for-in enumerate them
entryOf(stats, language) ==
    CHOOSE i \in 1..Len(stats) : stats[i].language = language

hasLanguage(stats, language) ==
    \E i \in 1..Len(stats) : stats[i].language = language

\* lines 55-66: the entry is created on first sight, files++, extensions.add(ext)
countFile(stats, language, ext) ==
    LET withEntry ==
            IF hasLanguage(stats, language) THEN stats
            ELSE Append(stats, [language |-> language, files |-> 0, lines |-> 0,
                                bytes |-> 0, extensions |-> <<>>,
                                primaryExtension |-> "undefined"])
        i == entryOf(withEntry, language)
        e == withEntry[i]
    IN  [withEntry EXCEPT ![i] =
            [e EXCEPT !.files = @ + 1,
                      !.extensions = IF ext \in Range(@) THEN @ ELSE Append(@, ext)]]

\* lines 68-74: the content is added when the read succeeds
countContent(stats, language, file) ==
    IF ~file.readable THEN stats
    ELSE LET i == entryOf(stats, language)
         IN  [stats EXCEPT ![i] = [@ EXCEPT !.lines = @ + file.lines,
                                            !.bytes = @ + file.bytes]]

\* lines 84-101
primaryExtensionOf(language, extensions) ==
    IF extensions = <<>> THEN "undefined"
    ELSE IF language = "JavaScript" /\ ".js" \in Range(extensions) THEN ".js"
    ELSE IF language = "JavaScript" /\ ".jsx" \in Range(extensions) THEN ".jsx"
    ELSE IF language = "TypeScript" /\ ".ts" \in Range(extensions) THEN ".ts"
    ELSE IF language = "TypeScript" /\ ".tsx" \in Range(extensions) THEN ".tsx"
    ELSE extensions[1]

withPrimaryExtensions(stats) ==
    [i \in 1..Len(stats) |->
        [stats[i] EXCEPT !.primaryExtension =
            primaryExtensionOf(stats[i].language, stats[i].extensions)]]

priorityMap(language) ==
    CASE language = "TypeScript" -> 10
      [] language = "JavaScript" -> 9
      [] language = "Python" -> 8
      [] language = "Java" -> 7
      [] language = "Go" -> 7
      [] language = "Rust" -> 7
      [] language = "C++" -> 6
      [] language = "C#" -> 6
      [] language = "PHP" -> 5
      [] language = "Ruby" -> 5
      [] language = "Swift" -> 6
      [] language = "Kotlin" -> 6
      [] language = "HTML" -> 4
      [] language = "CSS" -> 4
      [] language = "SCSS" -> 4
      [] language = "SASS" -> 4
      [] language = "Vue" -> 7
      [] language = "Svelte" -> 7
      [] OTHER -> 1

\* the score, in units of 10^-7.  3000000 * ln(n) for n = 1, 2, ... is
\* tabulated; the byte term 0.2 * bytes / 2^20 is rounded to the unit.  On
\* the statistics of this model the order of these integers is the order of
\* the doubles the code computes: equal integers belong to equal doubles.
lnTimes3e6 == <<0, 2079442, 3295837, 4158883, 4828314, 5375278, 5837730, 6238325, 6591674, 6907755, 7193686, 7454720, 7694848, 7917172, 8124151, 8317766>>

score(data) ==
    4000000 * data.files
    + lnTimes3e6[data.lines + 1]
    + ((data.bytes * 2000000 + 524288) \div 1048576)
    + 1000000 * priorityMap(data.language)

\* languages.sort((a, b) => b.score - a.score): descending and stable
RECURSIVE insertByScore(_, _)
insertByScore(sorted, e) ==
    IF sorted = <<>> THEN <<e>>
    ELSE IF score(Head(sorted)) >= score(e)
         THEN <<Head(sorted)>> \o insertByScore(Tail(sorted), e)
         ELSE <<e>> \o sorted

keepOrder(languages) == languages

RECURSIVE sortByScore(_)
sortByScore(languages) ==
    IF languages = <<>> THEN <<>>
    ELSE insertByScore(sortByScore(SubSeq(languages, 1, Len(languages) - 1)),
                       languages[Len(languages)])

pushIfMissing(list, present, language) ==
    IF present /\ language \notin Range(list) THEN Append(list, language) ELSE list

rankLanguages(stats) ==
    IF Len(stats) = 0 THEN <<>>
    ELSE LET languages == sortByScore(stats)
             top == SubSeq(languages, 1, IF Len(languages) < 5 THEN Len(languages) ELSE 5)
             topLanguages == [i \in 1..Len(top) |-> top[i].language]
             hasJS == hasLanguage(languages, "JavaScript")
             hasTS == hasLanguage(languages, "TypeScript")
         IN  pushIfMissing(pushIfMissing(topLanguages, hasTS, "TypeScript"),
                           hasJS, "JavaScript")

\* fallbackDetection: the manifest checks in their order
configChecks == <<
    [file |-> "package.json", language |-> "JavaScript"],
    [file |-> "tsconfig.json", language |-> "TypeScript"],
    [file |-> "requirements.txt", language |-> "Python"],
    [file |-> "pyproject.toml", language |-> "Python"],
    [file |-> "go.mod", language |-> "Go"],
    [file |-> "Cargo.toml", language |-> "Rust"],
    [file |-> "pom.xml", language |-> "Java"],
    [file |-> "build.gradle", language |-> "Java"],
    [file |-> "composer.json", language |-> "PHP"],
    [file |-> "Gemfile", language |-> "Ruby"],
    [file |-> "*.csproj", language |-> "C#"] >>

\* glob(check.file, {cwd: projectPath, nodir: true}) finds something
globFinds(pattern, files) ==
    \E i \in 1..Len(files) :
        IF pattern = "*.csproj" THEN files[i].ext = ".csproj"
        ELSE files[i].name = pattern

\* languages is a Set: Array.from gives the insertion order
addOnce(list, x) == IF x \in Range(list) THEN list ELSE Append(list, x)

\* lines 298-307; failing holds the patterns whose glob call rejects
RECURSIVE checkManifests(_, _, _, _)
checkManifests(checks, files, failing, languages) ==
    IF checks = <<>> THEN languages
    ELSE checkManifests(Tail(checks), files, failing,
            IF Head(checks).file \notin failing /\ globFinds(Head(checks).file, files)
            THEN addOnce(languages, Head(checks).language)
            ELSE languages)

\* lines 318-324
RECURSIVE scanFiles(_, _)
scanFiles(files, languages) ==
    IF files = <<>> THEN languages
    ELSE scanFiles(Tail(files),
            IF detectLanguageByFile(Head(files)) # "null"
            THEN addOnce(languages, detectLanguageByFile(Head(files)))
            ELSE languages)

\* glob('*.*', ...) names the files with a dot in their name
matchesStarDotStar(file) == file.ext # ""

fallbackDetection(files, failing) ==
    LET byManifest == checkManifests(configChecks, files, failing, <<>>)
        found == SelectSeq(files, matchesStarDotStar)
        first50 == SubSeq(found, 1, IF Len(found) < 50 THEN Len(found) ELSE 50)
    IN  IF "*.*" \in failing THEN byManifest ELSE scanFiles(first50, byManifest)

\* detectLanguages, lines 23-29: a rejection of analyzeLanguages is caught
catchesTraversalErrorNot == FALSE

catchesTraversalError == TRUE

NoEnv == [files |-> <<>>, exists |-> FALSE, traversalFails |-> FALSE, failing |-> {}]

LpIdle ==
    /\ lpEnv = NoEnv
    /\ lpPc = "off"
    /\ lpRun = 0
    /\ lpI = 0
    /\ lpTask = <<>>
    /\ lpStats = <<>>
    /\ lpReturned = <<>>
    /\ lpThrew = FALSE
    /\ lpFirst = <<>>

(***************************************************************************)
(* testingDetector.ts: detectTestingTools.  A file is a record of its path *)
(* relative to the project (its characters) and of the substrings that the *)
(* detector looks for in its content.                                      *)
(***************************************************************************)
TestingFlags == {"snapshotTesting", "visualTesting", "performanceTesting", "securityTesting"}

TestingFeatures == {"hasParallelTesting", "hasCIIntegration", "hasReporters",
                    "hasWatchMode", "hasDebugging", "hasIsolation"}

ToolLists == {"frameworks", "coverageTools", "e2eTools", "assertionLibraries",
              "mockingLibraries"}

\* lines 43-68; scripts and the directories of testStructure are left out
NewTestingAnalysis ==
    [frameworks |-> <<>>, coverageTools |-> <<>>, e2eTools |-> <<>>,
     assertionLibraries |-> <<>>, mockingLibraries |-> <<>>,
     snapshotTesting |-> FALSE, visualTesting |-> FALSE,
     performanceTesting |-> FALSE, securityTesting |-> FALSE,
     testFilePatterns |-> <<>>, configFiles |-> <<>>, languages |-> <<>>,
     features |-> [f \in TestingFeatures |-> FALSE]]

\* Object.assign(target, source): the fields of source replace those of target
objectAssign(target, source) == source @@ target

\* analyzePackageJson, lines 127-289: one entry per if-statement
packageRules == <<
    [any |-> {"jest"}, push |-> <<<<"frameworks", "Jest">>>>, flags |-> {"snapshotTesting"}],
    [any |-> {"vitest"}, push |-> <<<<"frameworks", "Vitest">>>>, flags |-> {}],
    [any |-> {"mocha"}, push |-> <<<<"frameworks", "Mocha">>>>, flags |-> {}],
    [any |-> {"jasmine"}, push |-> <<<<"frameworks", "Jasmine">>>>, flags |-> {}],
    [any |-> {"ava"}, push |-> <<<<"frameworks", "AVA">>>>, flags |-> {}],
    [any |-> {"tape"}, push |-> <<<<"frameworks", "Tape">>>>, flags |-> {}],
    [any |-> {"qunit"}, push |-> <<<<"frameworks", "QUnit">>>>, flags |-> {}],
    [any |-> {"pytest"}, push |-> <<<<"frameworks", "pytest">>>>, flags |-> {}],
    [any |-> {"unittest"}, push |-> <<<<"frameworks", "unittest">>>>, flags |-> {}],
    [any |-> {"junit"}, push |-> <<<<"frameworks", "JUnit">>>>, flags |-> {}],
    [any |-> {"testng"}, push |-> <<<<"frameworks", "TestNG">>>>, flags |-> {}],
    [any |-> {"@testing-library/react", "@testing-library/react-hooks"}, push |-> <<<<"frameworks", "React Testing Library">>>>, flags |-> {}],
    [any |-> {"@testing-library/vue"}, push |-> <<<<"frameworks", "Vue Testing Library">>>>, flags |-> {}],
    [any |-> {"@testing-library/angular"}, push |-> <<<<"frameworks", "Angular Testing Library">>>>, flags |-> {}],
    [any |-> {"@testing-library/svelte"}, push |-> <<<<"frameworks", "Svelte Testing Library">>>>, flags |-> {}],
    [any |-> {"enzyme"}, push |-> <<<<"frameworks", "Enzyme">>>>, flags |-> {}],
    [any |-> {"chai"}, push |-> <<<<"assertionLibraries", "Chai">>>>, flags |-> {}],
    [any |-> {"assert"}, push |-> <<<<"assertionLibraries", "Node.js assert">>>>, flags |-> {}],
    [any |-> {"power-assert"}, push |-> <<<<"assertionLibraries", "Power Assert">>>>, flags |-> {}],
    [any |-> {"should"}, push |-> <<<<"assertionLibraries", "Should.js">>>>, flags |-> {}],
    [any |-> {"expect"}, push |-> <<<<"assertionLibraries", "Expect.js">>>>, flags |-> {}],
    [any |-> {"sinon"}, push |-> <<<<"mockingLibraries", "Sinon.js">>>>, flags |-> {}],
    [any |-> {"nock"}, push |-> <<<<"mockingLibraries", "Nock">>>>, flags |-> {}],
    [any |-> {"jest-mock", "@jest/mock"}, push |-> <<<<"mockingLibraries", "Jest Mocks">>>>, flags |-> {}],
    [any |-> {"testdouble"}, push |-> <<<<"mockingLibraries", "TestDouble">>>>, flags |-> {}],
    [any |-> {"mock-fs"}, push |-> <<<<"mockingLibraries", "mock-fs">>>>, flags |-> {}],
    [any |-> {"cypress"}, push |-> <<<<"e2eTools", "Cypress">>>>, flags |-> {"visualTesting"}],
    [any |-> {"playwright"}, push |-> <<<<"e2eTools", "Playwright">>>>, flags |-> {}],
    [any |-> {"puppeteer"}, push |-> <<<<"e2eTools", "Puppeteer">>>>, flags |-> {}],
    [any |-> {"selenium-webdriver"}, push |-> <<<<"e2eTools", "Selenium">>>>, flags |-> {}],
    [any |-> {"testcafe"}, push |-> <<<<"e2eTools", "TestCafe">>>>, flags |-> {}],
    [any |-> {"nightwatch"}, push |-> <<<<"e2eTools", "Nightwatch.js">>>>, flags |-> {}],
    [any |-> {"webdriverio"}, push |-> <<<<"e2eTools", "WebdriverIO">>>>, flags |-> {}],
    [any |-> {"protractor"}, push |-> <<<<"e2eTools", "Protractor">>>>, flags |-> {}],
    [any |-> {"istanbul", "nyc"}, push |-> <<<<"coverageTools", "Istanbul/NYC">>>>, flags |-> {}],
    [any |-> {"c8"}, push |-> <<<<"coverageTools", "c8">>>>, flags |-> {}],
    [any |-> {"@vitest/coverage-v8", "@vitest/coverage-istanbul"}, push |-> <<<<"coverageTools", "Vitest Coverage">>>>, flags |-> {}],
    [any |-> {"coverage"}, push |-> <<<<"coverageTools", "coverage.py">>>>, flags |-> {}],
    [any |-> {"jacoco"}, push |-> <<<<"coverageTools", "JaCoCo">>>>, flags |-> {}],
    [any |-> {"autocannon", "wrk"}, push |-> <<>>, flags |-> {"performanceTesting"}],
    [any |-> {"artillery"}, push |-> <<<<"frameworks", "Artillery">>>>, flags |-> {"performanceTesting"}],
    [any |-> {"k6"}, push |-> <<<<"frameworks", "k6">>>>, flags |-> {"performanceTesting"}],
    [any |-> {"snyk", "npm-audit"}, push |-> <<>>, flags |-> {"securityTesting"}],
    [any |-> {"owasp-zap", "zap-api-scan"}, push |-> <<>>, flags |-> {"securityTesting"}],
    [any |-> {"jest-serializer-vue", "jest-serializer-html"}, push |-> <<>>, flags |-> {"snapshotTesting"}],
    [any |-> {"loki", "storybook"}, push |-> <<>>, flags |-> {"visualTesting"}],
    [any |-> {"reg-suit", "backstopjs"}, push |-> <<>>, flags |-> {"visualTesting"}],
    [any |-> {"applitools", "percy"}, push |-> <<>>, flags |-> {"visualTesting"}]
    >>

\* analyzeConfigFiles, lines 329-377
configPatterns == <<
    <<"j", "e", "s", "t", ".", "c", "o", "n", "f", "i", "g", ".", "*">>,
    <<"j", "e", "s", "t", ".", "*", ".", "j", "s">>,
    <<"j", "e", "s", "t", ".", "*", ".", "j", "s", "o", "n">>,
    <<"j", "e", "s", "t", ".", "*", ".", "t", "s">>,
    <<"v", "i", "t", "e", "s", "t", ".", "c", "o", "n", "f", "i", "g", ".", "*">>,
    <<".", "m", "o", "c", "h", "a", "r", "c", ".", "*">>,
    <<"m", "o", "c", "h", "a", ".", "*", ".", "j", "s">>,
    <<"c", "y", "p", "r", "e", "s", "s", ".", "c", "o", "n", "f", "i", "g", ".", "*">>,
    <<"c", "y", "p", "r", "e", "s", "s", ".", "j", "s", "o", "n">>,
    <<"c", "y", "p", "r", "e", "s", "s", "/", "c", "y", "p", "r", "e", "s", "s", ".", "*">>,
    <<"p", "l", "a", "y", "w", "r", "i", "g", "h", "t", ".", "c", "o", "n", "f", "i", "g", ".", "*">>,
    <<"p", "u", "p", "p", "e", "t", "e", "e", "r", ".", "c", "o", "n", "f", "i", "g", ".", "*">>,
    <<"k", "a", "r", "m", "a", ".", "c", "o", "n", "f", ".", "*">>,
    <<"p", "r", "o", "t", "r", "a", "c", "t", "o", "r", ".", "c", "o", "n", "f", ".", "*">>,
    <<".", "n", "y", "c", "r", "c">>,
    <<".", "n", "y", "c", "r", "c", ".", "*">>,
    <<"i", "s", "t", "a", "n", "b", "u", "l", ".", "*", ".", "y", "m", "l">>,
    <<".", "t", "e", "s", "t", "c", "a", "f", "e", "r", "c", ".", "*">>,
    <<"n", "i", "g", "h", "t", "w", "a", "t", "c", "h", ".", "c", "o", "n", "f", ".", "*">>,
    <<"n", "i", "g", "h", "t", "w", "a", "t", "c", "h", ".", "j", "s", "o", "n">>,
    <<".", "c", "o", "v", "e", "r", "a", "g", "e", "r", "c">>,
    <<"c", "o", "v", "e", "r", "a", "g", "e", ".", "*", ".", "y", "m", "l">>,
    <<".", "g", "i", "t", "h", "u", "b", "/", "w", "o", "r", "k", "f", "l", "o", "w", "s", "/", "*", "t", "e", "s", "t", "*", ".", "y", "m", "l">>,
    <<".", "g", "i", "t", "l", "a", "b", "-", "c", "i", ".", "y", "m", "l">>,
    <<".", "t", "r", "a", "v", "i", "s", ".", "y", "m", "l">>,
    <<"a", "z", "u", "r", "e", "-", "p", "i", "p", "e", "l", "i", "n", "e", "s", ".", "y", "m", "l">>,
    <<"j", "e", "n", "k", "i", "n", "s", "f", "i", "l", "e">>
    >>

RECURSIVE applyPackageRules(_, _, _)
applyPackageRules(rules, deps, result) ==
    IF rules = <<>> THEN result
    ELSE LET rule == Head(rules)
             pushed == IF rule.push = <<>> THEN result
                       ELSE [result EXCEPT ![rule.push[1][1]] = Append(@, rule.push[1][2])]
             flagged == [f \in rule.flags |-> TRUE] @@ pushed
         IN  applyPackageRules(Tail(rules), deps,
                IF rule.any \cap deps # {} THEN flagged ELSE result)

\* the Partial<TestingAnalysis> of analyzePackageJson: the five lists, and
\* the flags that a dependency sets to true
analyzePackageJson(hasPackageJson, deps) ==
    LET result == [l \in ToolLists |-> <<>>]
    IN  IF hasPackageJson THEN applyPackageRules(packageRules, deps, result) ELSE result

\* a glob pattern without braces against a path: '*' stands for any run of
\* characters other than '/', and for no leading '.'
RECURSIVE globMatch(_, _, _)
globMatch(pattern, path, atStart) ==
    IF pattern = <<>> THEN path = <<>>
    ELSE IF Head(pattern) = "*"
         THEN \/ globMatch(Tail(pattern), path, atStart)
              \/ /\ path # <<>>
                 /\ Head(path) # "/"
                 /\ ~(atStart /\ Head(path) = ".")
                 /\ globMatch(pattern, Tail(path), FALSE)
         ELSE /\ path # <<>>
              /\ Head(path) = Head(pattern)
              /\ globMatch(Tail(pattern), Tail(path), Head(path) = "/")

endsWith(s, suffix) ==
    Len(suffix) <= Len(s) /\ SubSeq(s, Len(s) - Len(suffix) + 1, Len(s)) = suffix

contains(file, words) == file.content \cap words # {}

\* lines 380-388: the matches of every pattern are pushed, pattern by pattern
RECURSIVE globConfigFiles(_, _)
globConfigFiles(patterns, files) ==
    IF patterns = <<>> THEN <<>>
    ELSE LET found == SelectSeq(files, LAMBDA f : globMatch(Head(patterns), f.path, TRUE))
         IN  [i \in 1..Len(found) |-> found[i].path] \o globConfigFiles(Tail(patterns), files)

fileAt(files, path) == CHOOSE f \in Range(files) : f.path = path

firstN(s, n) == SubSeq(s, 1, IF Len(s) < n THEN Len(s) ELSE n)

\* testingDetector.ts analyzeConfigFiles, lines 316-433
analyzeTestConfigFiles(files) ==
    LET configFiles == globConfigFiles(configPatterns, files)
        read == {fileAt(files, p) : p \in Range(firstN(configFiles, 5))}
        some(words) == \E f \in read : contains(f, words)
    IN  [configFiles |-> configFiles,
         features |->
            [hasParallelTesting |-> some({"maxWorkers", "maxConcurrency", "parallel", "workers"}),
             hasReporters |-> some({"reporters", "reporter"}),
             hasWatchMode |-> some({"watch", "watchAll"}),
             hasDebugging |-> some({"inspect", "debug", "inspect-brk"}),
             hasIsolation |-> some({"isolate", "sandbox", "runInNewContext"}),
             hasCIIntegration |->
                \E f \in read : \/ includes(f.path, <<".", "g", "i", "t", "h", "u", "b">>)
                                \/ includes(f.path, <<".", "g", "i", "t", "l", "a", "b">>)
                                \/ includes(f.path, <<".", "t", "r", "a", "v", "i", "s">>)
                                \/ includes(f.path, <<"a", "z", "u", "r", "e">>)]]

\* the extensions of '{js,jsx,ts,tsx}', '{js,jsx}' and '{ts,tsx}'
jsExts == {<<".", "j", "s">>, <<".", "j", "s", "x">>}

tsExts == {<<".", "t", "s">>, <<".", "t", "s", "x">>}

\* '**/*.{test,spec}.EXT' for the given extensions
isTestFile(path, marks, exts) ==
    \E m \in marks, e \in exts : endsWith(path, m \o e)

dotTest == <<".", "t", "e", "s", "t">>

dotSpec == <<".", "s", "p", "e", "c">>

\* analyzeTestStructure, lines 535-575: the pattern named after the first
\* file of each of the globs '**/*.test.*', '**/*.spec.*', '**/tests/**/*'
\* (foundPatterns is a Set)
analyzeTestStructure(files) ==
    LET paths == [i \in 1..Len(files) |-> files[i].path]
        srcExts == jsExts \cup tsExts
        inTests(p) == (startsWith(p, <<"t", "e", "s", "t", "s", "/">>)
                       \/ includes(p, <<"/", "t", "e", "s", "t", "s", "/">>))
                      /\ \E e \in srcExts : endsWith(p, e)
        named(sample) ==
            IF includes(sample, dotTest \o <<".">>) THEN <<"*.test.{js,jsx,ts,tsx}">>
            ELSE IF includes(sample, dotSpec \o <<".">>) THEN <<"*.spec.{js,jsx,ts,tsx}">>
            ELSE IF includes(sample, <<"/", "t", "e", "s", "t", "s", "/">>)
                 THEN <<"**/tests/**/*.{js,jsx,ts,tsx}">>
            ELSE <<>>
        sampleOf(found) == IF found = <<>> THEN <<>> ELSE named(found[1])
        byTest == sampleOf(SelectSeq(paths, LAMBDA p : isTestFile(p, {dotTest}, srcExts)))
        bySpec == sampleOf(SelectSeq(paths, LAMBDA p : isTestFile(p, {dotSpec}, srcExts)))
        byDir == sampleOf(SelectSeq(paths, inTests))
        add(list, x) == IF x = <<>> THEN list ELSE addOnce(list, x[1])
    IN  [testFilePatterns |-> add(add(add(<<>>, byTest), bySpec), byDir)]

\* analyzeTestFiles, lines 582-691: the four flags are always part of the
\* result, a list only when a sampled file imports the library
RECURSIVE sampleTestFiles(_, _)
sampleTestFiles(files, result) ==
    IF files = <<>> THEN result
    ELSE LET f == Head(files)
             listOf(r, field) == IF field \in DOMAIN r THEN r[field] ELSE <<>>
             flags == [k \in {g \in TestingFlags :
                          \/ g = "snapshotTesting" /\ contains(f, {"snapshot"})
                          \/ g = "visualTesting" /\ contains(f, {"visual", "percy"})
                          \/ g = "performanceTesting" /\ contains(f, {"performance", "benchmark"})
                          \/ g = "securityTesting" /\ contains(f, {"security", "audit"})}
                       |-> TRUE] @@ result
             fw == IF contains(f, {"@testing-library/react"})
                   THEN [k \in {"frameworks"} |->
                            Append(listOf(flags, "frameworks"), "React Testing Library")] @@ flags
                   ELSE IF contains(f, {"@testing-library/vue"})
                   THEN [k \in {"frameworks"} |->
                            Append(listOf(flags, "frameworks"), "Vue Testing Library")] @@ flags
                   ELSE flags
             chai == IF contains(f, {"from 'chai'"})
                     THEN [k \in {"assertionLibraries"} |->
                            Append(listOf(fw, "assertionLibraries"), "Chai")] @@ fw
                     ELSE fw
             sinon == IF contains(f, {"from 'sinon'"})
                      THEN [k \in {"mockingLibraries"} |->
                            Append(listOf(chai, "mockingLibraries"), "Sinon.js")] @@ chai
                      ELSE chai
         IN  sampleTestFiles(Tail(files), sinon)

analyzeTestFiles(files) ==
    LET testFiles == SelectSeq(files,
                        LAMBDA f : isTestFile(f.path, {dotTest, dotSpec}, jsExts \cup tsExts))
        sampled == sampleTestFiles(firstN(testFiles, 10), [g \in TestingFlags |-> FALSE])
        snap == \E f \in Range(files) : endsWith(f.path, <<".", "s", "n", "a", "p">>)
    IN  IF snap THEN [k \in {"snapshotTesting"} |-> TRUE] @@ sampled ELSE sampled

\* detectTestLanguages, lines 693-745, for JavaScript and TypeScript tests
detectTestLanguages(files) ==
    LET has(exts) == \E f \in Range(files) : isTestFile(f.path, {dotTest, dotSpec}, exts)
    IN  (IF has(jsExts) THEN <<"JavaScript">> ELSE <<>>)
        \o (IF has(tsExts) THEN <<"TypeScript">> ELSE <<>>)

\* detectTestingFeatures, lines 747-843: a features object of its own
detectTestingFeatures(files, scripts, frameworks) ==
    LET configFiles == SelectSeq(files, LAMBDA f :
                          /\ includes(f.path, <<"c", "o", "n", "f", "i", "g">>)
                          /\ ~includes(f.path, <<"/">>)
                          /\ \E e \in {<<".", "j", "s">>, <<".", "t", "s">>,
                                       <<".", "j", "s", "o", "n">>} : endsWith(f.path, e))
        read == Range(firstN(configFiles, 5))
        some(words) == \E f \in read : contains(f, words)
        workflows == SelectSeq(files, LAMBDA f :
                        globMatch(<<".", "g", "i", "t", "h", "u", "b", "/", "w", "o", "r", "k",
                                    "f", "l", "o", "w", "s", "/", "*", ".", "y", "m", "l">>,
                                  f.path, TRUE))
    IN  [features |->
            [hasParallelTesting |-> "Jest" \in Range(frameworks) \/ "Vitest" \in Range(frameworks),
             hasCIIntegration |-> \E f \in Range(firstN(workflows, 3)) :
                                     contains(f, {"test", "Test", "jest", "mocha"}),
             hasReporters |-> some({"reporter", "reporters"}),
             hasWatchMode |-> some({"watch", "watchAll"})
                              \/ scripts \cap {"--watch", "watchAll"} # {},
             hasDebugging |-> some({"inspect", "debug"})
                              \/ scripts \cap {"--inspect", "--debug", "inspect-brk"} # {},
             hasIsolation |-> some({"isolate", "sandbox"})]]

keepDuplicates(list) == list

\* [...new Set(list)]
RECURSIVE dedupe(_)
dedupe(list) ==
    IF list = <<>> THEN <<>>
    ELSE addOnce(dedupe(SubSeq(list, 1, Len(list) - 1)), list[Len(list)])

NoTestEnv == [hasPackageJson |-> FALSE, deps |-> {}, scripts |-> {}, files |-> <<>>]

TdIdle ==
    /\ tdPc = "off"
    /\ tdEnv = NoTestEnv
    /\ tdAnalysis = NewTestingAnalysis
    /\ tdManifest = NewTestingAnalysis
    /\ tdTrue = {}

(***************************************************************************)
(* Spec: analyzeProject and analyzeWorkspace                               *)
(***************************************************************************)
ProjectDirs == {<<"a">>, <<"b">>, <<"B">>, <<>>}

WsFileUniverse == {[dir |-> DirList[i], name |-> "package.json"] : i \in 1..MaxRoots}

ResetRun ==
    /\ apErr' = "none"
    /\ accessible' = TRUE
    /\ sawCancel' = FALSE
    /\ increment' = 0
    /\ started' = <<>>
    /\ finished' = 0
    /\ reports' = <<>>
    /\ analysis' = NewAnalysis

InitRun ==
    /\ apErr = "none"
    /\ accessible = TRUE
    /\ sawCancel = FALSE
    /\ increment = 0
    /\ started = <<>>
    /\ finished = 0
    /\ reports = <<>>
    /\ analysis = NewAnalysis

InitWs ==
    /\ wsErr = "none"
    /\ wsAccessible = TRUE
    /\ wsResult = <<>>
    /\ roots = <<>>
    /\ rootIdx = 0
    /\ projects = <<>>
    /\ calls = 0
    /\ frontendComponents = <<>>
    /\ backendComponents = <<>>
    /\ sink = 0
    /\ faults = 0

AggIdle ==
    /\ cancel = FALSE
    /\ atCancel = [started |-> 0, phase |-> "none", sink |-> 0, calls |-> 0]
    /\ InitWs
    /\ InitRun
    /\ wsPc = "off"
    /\ apPc = "idle"
    /\ projectPath = <<>>

Init ==
    /\ FeIdle
    /\ BeIdle
    /\ DiscoverIdle
    /\ DcIdle
    /\ LpIdle
    /\ TdIdle
    /\ cancel = FALSE
    /\ atCancel = [started |-> 0, phase |-> "none", sink |-> 0, calls |-> 0]
    /\ InitWs
    /\ InitRun
    /\ \/ /\ mode = "project"
          /\ wsFiles = {}
          /\ wsPc = "off"
          /\ projectPath \in ProjectDirs
          /\ apPc = "entry"
       \/ /\ mode = "workspace"
          /\ wsFiles \in SUBSET WsFileUniverse
          /\ wsPc = "entry"
          /\ projectPath = <<>>
          /\ apPc = "idle"

wsVars == <<wsFiles, wsPc, wsErr, wsAccessible, wsResult, roots, rootIdx, projects, calls,
            frontendComponents, backendComponents>>

runVars == <<projectPath, apPc, apErr, accessible, sawCancel, increment, started,
             finished, reports, analysis>>

Running == apPc \in {"entry", "loop", "inPhase"} \/ wsPc \in {"entry", "loop", "call"}

\* The user cancels: token.isCancellationRequested becomes true and stays so.
Cancel ==
    /\ Running
    /\ ~cancel
    /\ cancel' = TRUE
    /\ atCancel' = [started |-> Len(started),
                    phase |-> IF apPc = "inPhase" THEN started[Len(started)] ELSE "none",
                    sink |-> sink, calls |-> calls]
    /\ UNCHANGED <<rootsAgain, detVars, tdVars, mode, wsVars, runVars, sink, faults>>

\* pathExists(projectPath): fs.access fails -> throw new Error(...)
pathExistsNoThrow(ok) == TRUE

pathExists(ok) == ok

\* analyzeProject lines 18-24: await pathExists(projectPath); await fs.stat(projectPath)
ApCheckPath ==
    /\ apPc = "entry"
    /\ \E ok \in BOOLEAN :
          /\ accessible' = ok
          /\ IF pathExists(ok)
             THEN /\ apPc' = "loop"
                  /\ apErr' = "none"
                  /\ analysis' = [analysis EXCEPT !.projectLastModified = TRUE,
                                                  !.assigned = @ \cup {"projectLastModified"}]
             ELSE /\ apPc' = "threw"
                  /\ apErr' = "PathNotFound"
                  /\ analysis' = analysis
    /\ UNCHANGED <<rootsAgain, detVars, tdVars, mode, cancel, atCancel, wsVars, projectPath, sawCancel, increment, started,
                   finished, reports, sink, faults>>

\* line 39: if (token?.isCancellationRequested) break;
CancelObservedNever(c) == FALSE

CancelObserved(c) == c

\* lines 38-42 up to the first await inside startPhase: the cancellation check,
\* increment += 100 / phases.length, progress.report({message, increment})
ApStartPhase ==
    /\ apPc = "loop"
    /\ Len(started) < Len(phases)
    /\ ~CancelObserved(cancel)
    /\ increment' = increment + (2 * 100) \div Len(phases)
    /\ started' = Append(started, phases[Len(started) + 1])
    /\ reports' = Append(reports, [pct |-> increment', completed |-> finished])
    /\ sink' = sink + 1
    /\ apPc' = "inPhase"
    /\ UNCHANGED <<rootsAgain, detVars, tdVars, mode, cancel, atCancel, wsVars, projectPath, apErr, accessible, sawCancel,
                   finished, analysis, faults>>

\* the awaits of startPhase settle: the phase writes its properties, or its
\* exception reaches the catch of analyzeProject (lines 47-50) and is rethrown
ApEndPhase ==
    /\ apPc = "inPhase"
    /\ \E raised \in BOOLEAN :
          /\ raised => faults < MaxFaults
          /\ faults' = IF raised THEN faults + 1 ELSE faults
          /\ LET r == startPhase(analysis, projectPath, started[Len(started)], raised)
             IN  /\ analysis' = r.analysis
                 /\ IF r.threw
                    THEN apPc' = "threw" /\ apErr' = "PhaseError" /\ finished' = finished
                    ELSE apPc' = "loop" /\ apErr' = apErr /\ finished' = finished + 1
    /\ UNCHANGED <<rootsAgain, detVars, tdVars, mode, cancel, atCancel, wsVars, projectPath, accessible, sawCancel, increment,
                   started, reports, sink>>

\* the loop ends (all phases done, or break on cancellation), then lines 45-52:
\* rootPath, components = buildComponentsFromAnalysis(analysis), return
ApReturn ==
    /\ apPc = "loop"
    /\ Len(started) = Len(phases) \/ CancelObserved(cancel)
    /\ sawCancel' = (Len(started) < Len(phases))
    /\ IF BuildThrows(analysis)
       THEN /\ apPc' = "threw"
            /\ apErr' = "TypeError"
            /\ analysis' = [analysis EXCEPT !.rootPath = projectPath,
                                            !.assigned = @ \cup {"rootPath"}]
       ELSE /\ apPc' = "returned"
            /\ apErr' = apErr
            /\ analysis' = [analysis EXCEPT
                               !.rootPath = projectPath,
                               !.components = buildComponentsFromAnalysis(
                                                 [analysis EXCEPT !.rootPath = projectPath]),
                               !.assigned = @ \cup {"rootPath", "components"}]
    /\ UNCHANGED <<rootsAgain, detVars, tdVars, mode, cancel, atCancel, wsVars, projectPath, accessible, increment, started,
                   finished, reports, sink, faults>>


\* analyzeWorkspace lines 60-62: await pathExists(workspacePath);
\* const roots = await detectWorkspaceProjects(workspacePath)
WsEntry ==
    /\ wsPc = "entry"
    /\ \E ok \in BOOLEAN :
          /\ wsAccessible' = ok
          /\ IF pathExists(ok)
             THEN /\ \E order \in Orders(DirsOf(wsFiles)) :
                        roots' = detectWorkspaceProjects(wsFiles, order)
                  /\ wsPc' = "loop"
                  /\ wsErr' = "none"
             ELSE /\ roots' = roots
                  /\ wsPc' = "threw"
                  /\ wsErr' = "PathNotFound"
    /\ UNCHANGED <<rootsAgain, detVars, tdVars, mode, cancel, atCancel, wsFiles, wsResult, rootIdx, projects, calls,
                   frontendComponents, backendComponents, runVars, sink, faults>>

\* line 69: if (token?.isCancellationRequested) break;
RootCancelObservedNever(c) == FALSE

RootCancelObserved(c) == c

\* lines 68-72: the cancellation check before a root, the progress message,
\* and the call of analyzeProject(root.rootPath, progress, token)
WsSkipRoot ==
    /\ wsPc = "loop"
    /\ rootIdx < Len(roots)
    /\ ~RootCancelObserved(cancel)
    /\ rootIdx' = rootIdx + 1
    /\ UNCHANGED <<rootsAgain, detVars, tdVars, mode, cancel, atCancel, wsFiles, wsPc, wsErr,
                   wsAccessible, wsResult, roots, projects, calls, frontendComponents,
                   backendComponents, runVars, sink, faults>>

WsNextRoot ==
    /\ wsPc = "loop"
    /\ rootIdx < Len(roots)
    /\ ~RootCancelObserved(cancel)
    /\ sink' = sink + 1
    /\ calls' = calls + 1
    /\ projectPath' = roots[rootIdx + 1].rootPath
    /\ apPc' = "entry"
    /\ ResetRun
    /\ wsPc' = "call"
    /\ UNCHANGED <<rootsAgain, detVars, tdVars, mode, cancel, atCancel, wsFiles, wsErr, wsAccessible, wsResult, roots, rootIdx,
                   projects, frontendComponents, backendComponents, faults>>

deriveProjectTypeHints(a, root) ==
    root.typeHints
    \cup (IF HasFramework(a.frontend) THEN {"frontend"} ELSE {})
    \cup (IF HasFramework(a.backend) THEN {"backend"} ELSE {})

ComponentRefsAnyKind(a, root, kind) ==
    [i \in 1..Len(a.components) |->
        [projectId |-> root.id, componentId |-> a.components[i].id,
         rootPath |-> a.components[i].rootPath, kind |-> kind,
         frameworks |-> a.components[i].frameworks]]

ComponentRefs(a, root, kind) ==
    LET cs == SelectSeq(a.components, LAMBDA c : c.kind = kind)
    IN  [i \in 1..Len(cs) |->
            [projectId |-> root.id, componentId |-> cs[i].id, rootPath |-> cs[i].rootPath,
             kind |-> kind, frameworks |-> cs[i].frameworks]]

\* lines 72-104: analyzeProject resolved; the profile is tagged with the root,
\* pushed, and its components are filed under the workspace summaries
WsCollect ==
    /\ wsPc = "call"
    /\ apPc = "returned"
    /\ LET root == roots[rootIdx + 1]
           tagged == [analysis EXCEPT !.projectId = root.id,
                                      !.rootPath = root.rootPath,
                                      !.projectTypeHints = deriveProjectTypeHints(analysis, root),
                                      !.assigned = @ \cup {"projectId", "rootPath",
                                                           "projectTypeHints"}]
       IN  /\ analysis' = tagged
           /\ projects' = Append(projects, tagged)
           /\ frontendComponents' = frontendComponents \o ComponentRefs(tagged, root, "frontend")
           /\ backendComponents' = backendComponents \o ComponentRefs(tagged, root, "backend")
    /\ rootIdx' = rootIdx + 1
    /\ apPc' = "idle"
    /\ wsPc' = "loop"
    /\ UNCHANGED <<rootsAgain, detVars, tdVars, mode, cancel, atCancel, wsFiles, wsErr, wsAccessible, wsResult, roots, calls,
                   projectPath, apErr, accessible, sawCancel, increment, started, finished,
                   reports, sink, faults>>

\* line 72 has no try/catch: a rejected analyzeProject rejects analyzeWorkspace
WsRootFailed ==
    /\ wsPc = "call"
    /\ apPc = "threw"
    /\ wsPc' = "threw"
    /\ wsErr' = "RootFailed"
    /\ UNCHANGED <<rootsAgain, detVars, tdVars, mode, cancel, atCancel, wsFiles, wsAccessible, wsResult, roots, rootIdx, projects,
                   calls, frontendComponents, backendComponents, runVars, sink, faults>>

\* lines 107-115: return { roots, projects, summary }
WsReturn ==
    /\ wsPc = "loop"
    /\ rootIdx = Len(roots) \/ RootCancelObserved(cancel)
    /\ wsPc' = "returned"
    /\ wsResult' = << [roots |-> roots, projects |-> projects,
                       summary |-> [projectCount |-> Len(projects),
                                    frontendComponents |-> frontendComponents,
                                    backendComponents |-> backendComponents]] >>
    /\ UNCHANGED <<rootsAgain, detVars, tdVars, mode, cancel, atCancel, wsFiles, wsErr, wsAccessible, roots, rootIdx, projects,
                   calls, frontendComponents, backendComponents, runVars, sink, faults>>

Next ==
    \/ Cancel
    \/ ApCheckPath
    \/ ApStartPhase
    \/ ApEndPhase
    \/ ApReturn
    \/ WsEntry
    \/ WsNextRoot
    \/ WsCollect
    \/ WsRootFailed
    \/ WsReturn

Spec == Init /\ [][Next]_vars


(***************************************************************************)
(* Properties of analyzeProject and analyzeWorkspace                       *)
(***************************************************************************)
FixedOrder == <<"LANGUAGE", "CONFIGURATION", "FRAMEWORK", "TESTING", "DEPENDENCY",
                "PROJECT_STRUCTURE", "DOCUMENTATION", "METADATA">>

\* The properties each phase writes into the profile.
PhaseFields(phase) ==
    CASE phase = "LANGUAGE" -> {"languages", "hasTypeScript"}
      [] phase = "CONFIGURATION" -> {"configFiles", "hasLinting", "hasCI", "hasDocker"}
      [] phase = "FRAMEWORK" -> {"frontend", "backend"}
      [] phase = "TESTING" -> {"testing", "hasTests"}
      [] phase = "DEPENDENCY" -> {"dependencies"}
      [] phase = "PROJECT_STRUCTURE" -> {"entryPoints", "configFiles", "sourceDirectories",
                                         "testDirectories", "buildOutputs"}
      [] phase = "DOCUMENTATION" -> {"hasDocumentation"}
      [] OTHER -> {"name"}

\* C1: analyzeProject rejects only for an inaccessible root path found before
\* phase 1; a failure inside a phase never makes it reject.
C1_OnlyPathNotFoundThrows ==
    apPc = "threw" => (apErr = "PathNotFound" /\ started = <<>>)

\* C2: a phase is started only while the cancellation flag is unset; once the
\* loop has observed the flag the run returns its profile without an error and
\* with every started phase finished; a phase that was running when the flag
\* was set still completes and writes its properties.
C2_CancellationBetweenPhases ==
    /\ cancel => Len(started) = atCancel.started
    /\ sawCancel => /\ apPc \in {"returned", "idle"}
                    /\ apErr = "none"
                    /\ cancel
                    /\ finished = Len(started)
                    /\ "components" \in analysis.assigned
    /\ (cancel /\ atCancel.phase # "none" /\ apPc \in {"loop", "returned", "idle"})
          => /\ finished = atCancel.started
             /\ PhaseFields(atCancel.phase) \subseteq analysis.assigned

C2_Witness ==
    /\ sawCancel
    /\ apPc = "returned"
    /\ atCancel.phase = "FRAMEWORK"
    /\ finished = 3

\* C3: a root whose analyzeProject fails does not make analyzeWorkspace fail;
\* analyzeWorkspace rejects only for an inaccessible workspace path.
C3_FailedRootKeepsSiblings ==
    wsPc = "threw" => wsErr = "PathNotFound"

\* C4: the phases started so far are always an initial part of the fixed
\* order (so none twice, none out of order, none skipped), a phase starts only
\* when all earlier ones have finished, and a run that returns with fewer than
\* eight phases has the cancellation flag set.
C4_FixedPhaseOrder ==
    /\ IsPrefix(started, FixedOrder)
    /\ finished <= Len(started)
    /\ Len(started) <= finished + 1
    /\ apPc \in {"loop", "returned"} => finished = Len(started)
    /\ (apPc = "returned" /\ Len(started) < Len(FixedOrder)) => cancel

C4_Witness ==
    /\ apPc = "returned"
    /\ ~cancel
    /\ started = FixedOrder
    /\ finished = 8

\* C5: with an inaccessible root path analyzeProject rejects before phase 1,
\* with no phase started, no progress reported and no profile built; with an
\* inaccessible workspace path analyzeWorkspace rejects before any root.
C5_PathNotFoundBeforePhases ==
    /\ (apPc \notin {"idle", "entry"} /\ ~accessible)
          => /\ apPc = "threw"
             /\ apErr = "PathNotFound"
             /\ started = <<>>
             /\ reports = <<>>
             /\ analysis.assigned = {}
    /\ (wsPc \notin {"off", "entry"} /\ ~wsAccessible)
          => /\ wsPc = "threw"
             /\ wsErr = "PathNotFound"
             /\ calls = 0
             /\ sink = 0
             /\ started = <<>>
             /\ projects = <<>>
             /\ wsResult = <<>>

C5_Witness ==
    /\ mode = "project"
    /\ ~accessible
    /\ apPc = "threw"

\* C6 (as stated): a run cancelled after phase 3 returns a profile with
\* languages, frontend and backend written and with testing, dependencies,
\* every project-structure field, the documentation flag and the metadata
\* still absent.
LaterFields ==
    {"testing", "hasTests", "dependencies", "hasDocumentation", "name"}

StructureFields ==
    {"entryPoints", "configFiles", "sourceDirectories", "testDirectories", "buildOutputs"}

CancelledAfterThree ==
    apPc = "returned" /\ sawCancel /\ finished = 3

C6_CancelledAfterFrameworkStrict ==
    CancelledAfterThree
       => /\ {"languages", "frontend", "backend"} \subseteq analysis.assigned
          /\ analysis.assigned \cap (LaterFields \cup StructureFields) = {}

\* C6 (amended): as above, except that fileStructure.configFiles has already
\* been written by the CONFIGURATION phase; the other project-structure
\* fields are still absent.
C6_CancelledAfterFramework ==
    CancelledAfterThree
       => /\ {"languages", "frontend", "backend", "configFiles"} \subseteq analysis.assigned
          /\ analysis.assigned \cap (LaterFields \cup (StructureFields \ {"configFiles"})) = {}
          /\ apErr = "none"

C6_Witness ==
    /\ CancelledAfterThree
    /\ analysis.frontend = "React"
    /\ analysis.languages = <<"TypeScript">>

\* C7: the reported percentages are strictly increasing and each one is
\* 100/8 times the number of phases completed when it is reported.
C7_ProgressPerCompletedPhase ==
    /\ \A i, j \in 1..Len(reports) : i < j => reports[i].pct < reports[j].pct
    /\ \A i \in 1..Len(reports) :
          reports[i].pct * Len(FixedOrder) = 2 * 100 * reports[i].completed

\* C8: after the cancellation flag is set analyzeWorkspace calls
\* analyzeProject for no further root and no phase of any root starts; roots
\* are analysed one at a time, in the order of roots.
C8_WorkspaceCancellation ==
    /\ cancel => (calls = atCancel.calls /\ sink = atCancel.sink)
    /\ calls \in {rootIdx, rootIdx + 1}
    /\ calls = rootIdx + 1 <=> wsPc \in {"call"} \/ (wsPc = "threw" /\ wsErr = "RootFailed")
    /\ Len(projects) = rootIdx
    /\ \A i \in 1..Len(projects) : projects[i].rootPath = roots[i].rootPath
    /\ (wsPc = "returned" /\ Len(projects) < Len(roots)) => cancel

C8_Witness ==
    /\ wsPc = "returned"
    /\ cancel
    /\ Len(projects) = 1
    /\ Len(roots) = 2
    /\ atCancel.phase # "none"


\* The (root id, component id) pairs of the components of one kind over the
\* analysed projects of a workspace result, and those of a summary list.
ComponentsOfKind(r, kind) ==
    UNION {{<<r.roots[i].id, r.projects[i].components[j].id>> :
               j \in {k \in 1..Len(r.projects[i].components) :
                         r.projects[i].components[k].kind = kind}} :
           i \in 1..Len(r.projects)}

ListedRefs(list) == {<<list[k].projectId, list[k].componentId>> : k \in 1..Len(list)}

\* C11: in a returned WorkspaceAnalysis, summary.frontendComponents holds
\* exactly one entry, carrying the root's id, for every 'frontend' component
\* of every analysed project and nothing else; likewise backendComponents
\* for 'backend'; 'unknown' components are in neither.  Two sibling roots,
\* one declaring react and one express, analysed undisturbed, give 2 roots,
\* one frontend entry and one backend entry.
C11_SummaryListsComponents ==
    wsPc = "returned" =>
       LET r == wsResult[1]
           fc == r.summary.frontendComponents
           bc == r.summary.backendComponents
       IN  /\ ListedRefs(fc) = ComponentsOfKind(r, "frontend")
           /\ Len(fc) = Cardinality(ComponentsOfKind(r, "frontend"))
           /\ \A k \in 1..Len(fc) : fc[k].kind = "frontend"
           /\ ListedRefs(bc) = ComponentsOfKind(r, "backend")
           /\ Len(bc) = Cardinality(ComponentsOfKind(r, "backend"))
           /\ \A k \in 1..Len(bc) : bc[k].kind = "backend"
           /\ ComponentsOfKind(r, "unknown") \cap (ListedRefs(fc) \cup ListedRefs(bc)) = {}
           /\ (/\ wsFiles = {[dir |-> <<"a">>, name |-> "package.json"],
                             [dir |-> <<"b">>, name |-> "package.json"]}
               /\ ~cancel
               /\ faults = 0)
              => (/\ Len(r.roots) = 2
                  /\ Len(fc) = 1 /\ fc[1].projectId = r.roots[1].id
                  /\ Len(bc) = 1 /\ bc[1].projectId = r.roots[2].id)

C11_Witness ==
    /\ wsPc = "returned"
    /\ ~cancel
    /\ faults = 0
    /\ Len(wsResult[1].projects) = 2
    /\ Len(wsResult[1].summary.frontendComponents) = 1
    /\ Len(wsResult[1].summary.backendComponents) = 1

KindsOf(cs) == {cs[i].kind : i \in 1..Len(cs)}

\* <base>-<kind>-1 where base is a sanitized name: 'project', or lower-case
\* letters and digits in groups separated by single '-'
SanitizedForm(base) ==
    \/ base = <<"project">>
    \/ /\ base # <<>>
       /\ \A i \in 1..Len(base) : base[i] \in IdChars \cup {"-"}
       /\ base[1] # "-" /\ base[Len(base)] # "-"
       /\ \A i \in 1..(Len(base) - 1) : ~(base[i] = "-" /\ base[i + 1] = "-")

ComponentIdForm(c) ==
    /\ Len(c.id) >= 5
    /\ SubSeq(c.id, Len(c.id) - 3, Len(c.id)) = <<"-", c.kind, "-", "1">>
    /\ SanitizedForm(SubSeq(c.id, 1, Len(c.id) - 4))

\* C12: every profile returned by analyzeProject, complete or cancelled, has
\* at least one component; it has a 'frontend' component iff
\* frontend.framework.name is set and not 'Unknown', a 'backend' component
\* iff backend.framework.name is set and not 'Unknown', and an 'unknown'
\* component iff neither; each id is <sanitized-name>-<kind>-1 and the ids of
\* a profile are pairwise distinct.
C12_ComponentsOfProfile ==
    apPc = "returned" =>
       LET cs == analysis.components
           fe == analysis.frontend \notin {"undefined", "Unknown"}
           be == analysis.backend \notin {"undefined", "Unknown"}
       IN  /\ Len(cs) >= 1
           /\ ("frontend" \in KindsOf(cs)) <=> fe
           /\ ("backend" \in KindsOf(cs)) <=> be
           /\ ("unknown" \in KindsOf(cs)) <=> (~fe /\ ~be)
           /\ KindsOf(cs) \subseteq {"frontend", "backend", "unknown"}
           /\ \A i \in 1..Len(cs) : ComponentIdForm(cs[i])
           /\ \A i, j \in 1..Len(cs) : i # j => cs[i].id # cs[j].id
           /\ (analysis.name.text = <<"A", "_", "b">> /\ be)
                 => cs[1].id = <<"a", "-", "b", "-", "backend", "-", "1">>

\* a completed profile of the package named 'A_b', and a cancelled one
C12_Witness ==
    /\ apPc = "returned"
    /\ ~sawCancel
    /\ analysis.name.text = <<"A", "_", "b">>
    /\ analysis.components[1].kind = "backend"

C12_WitnessCancelled ==
    /\ apPc = "returned"
    /\ sawCancel
    /\ analysis.components[1].kind = "unknown"

(***************************************************************************)
(* SpecDiscover: detectWorkspaceProjects run twice on one tree, the        *)
(* directory walk of each run in an order of the file system's choosing    *)
(***************************************************************************)
\* a tree with more than nine manifest directories
ManyDirs == << <<"b", "B">>, <<"a">>, <<"B", "b">>, <<"b">>, <<"a", "a">>, <<"B">>,
               <<"b", "a">>, <<"a", "B">>, <<"B", "a">>, <<"a", "b">>, <<"b", "b">> >>

ManyTree == {[dir |-> ManyDirs[i], name |-> "package.json"] : i \in 1..Len(ManyDirs)}

DiscoverUniverse ==
    {[dir |-> DirList[i], name |-> n] : i \in 1..MaxDirs, n \in {"package.json", "go.mod"}}
    \cup {[dir |-> <<"node_modules", "a">>, name |-> "package.json"],
          [dir |-> <<"a">>, name |-> "README.md"]}

Reverse(s) == [i \in 1..Len(s) |-> s[Len(s) + 1 - i]]

\* The walk orders: every order of a small tree, two opposite ones of ManyTree.
WalkOrders(files) ==
    IF files = ManyTree THEN {ManyDirs, Reverse(ManyDirs)} ELSE Orders(DirsOf(files))

InitDiscover ==
    /\ mode = "discover"
    /\ AggIdle
    /\ FeIdle
    /\ BeIdle
    /\ DiscoverIdle
    /\ DcIdle
    /\ LpIdle
    /\ TdIdle
    /\ wsFiles \in (SUBSET DiscoverUniverse) \cup {ManyTree}

DiscoverFirst ==
    /\ mode = "discover"
    /\ roots = <<>>
    /\ \E o \in WalkOrders(wsFiles) : roots' = detectWorkspaceProjects(wsFiles, o)
    /\ UNCHANGED <<rootsAgain, detVars, tdVars, mode, cancel, atCancel, wsFiles, wsPc, wsErr,
                   wsAccessible, wsResult, rootIdx, projects, calls, frontendComponents,
                   backendComponents, sink, faults, projectPath, apPc, apErr, accessible,
                   sawCancel, increment, started, finished, reports, analysis>>

DiscoverAgain ==
    /\ mode = "discover"
    /\ roots # <<>>
    /\ rootsAgain = <<>>
    /\ \E o \in WalkOrders(wsFiles) : rootsAgain' = detectWorkspaceProjects(wsFiles, o)
    /\ UNCHANGED <<aggVars, detVars, tdVars>>

NextDiscover ==
    \/ DiscoverFirst
    \/ DiscoverAgain

SpecDiscover == InitDiscover /\ [][NextDiscover]_vars

\* 'proj-' followed by i in three decimal digits
ProjNNN(i) == <<"p", "r", "o", "j", "-", DigitChar[(i \div 100) + 1],
                DigitChar[((i \div 10) % 10) + 1], DigitChar[(i % 10) + 1]>>

PathToId(rs) == {<<rs[i].rootPath, rs[i].id>> : i \in 1..Len(rs)}

IdsByPosition(rs) ==
    /\ \A i \in 1..Len(rs) : rs[i].id = ProjNNN(i)
    /\ \A i, j \in 1..Len(rs) : i # j => rs[i].id # rs[j].id

InitFrontend ==
    /\ mode = "frontend"
    /\ AggIdle
    /\ wsFiles = {}
    /\ DiscoverIdle
    /\ DcIdle
    /\ LpIdle
    /\ TdIdle
    /\ BeIdle
    /\ fePc = "manifest"
    /\ fePackageJson \in BOOLEAN
    /\ feDeps \in SUBSET FeDepUniverse
    /\ ~fePackageJson => feDeps = {}
    /\ feFiles \in SUBSET FeFileUniverse
    /\ feManifest = NewFrontendAnalysis
    /\ feAnalysis = NewFrontendAnalysis

\* lines 162-175: readPackageJson and the dependency phases 2-4
FeManifest ==
    /\ fePc = "manifest"
    /\ LET fd == detectFrameworkFromDependencies(feDeps)
           a == IF fePackageJson
                THEN [feAnalysis EXCEPT
                         !.framework = fd.framework,
                         !.frameworks = fd.frameworks,
                         !.hasRouter = fd.hasRouter,
                         !.hasStateManagement = fd.hasStateManagement,
                         !.metaFrameworks = detectMetaFrameworks(feDeps),
                         !.features = AssignFeatures(@, detectFeaturesFromDependencies(feDeps))]
                ELSE feAnalysis
       IN  feAnalysis' = a /\ feManifest' = a
    /\ fePc' = "config"
    /\ UNCHANGED <<aggVars, rootsAgain, notFeVars, tdVars, fePackageJson, feDeps, feFiles>>

\* lines 177-193: the structure phase (which never sets framework: its own
\* result has none to compare with 'Unknown'), then
\* Object.assign(analysis, await analyzeConfigFiles(...))
FeConfig ==
    /\ fePc = "config"
    /\ \E raised \in BOOLEAN :
          LET c == analyzeConfigFiles(feFiles, raised)
          IN  feAnalysis' = [feAnalysis EXCEPT
                                !.configFiles = c.configFiles,
                                !.features = IF c.hasFeatures THEN c.features ELSE @]
    /\ fePc' = "verify"
    /\ UNCHANGED <<aggVars, rootsAgain, notFeVars, tdVars, fePackageJson, feDeps, feFiles, feManifest>>

\* lines 195-205: phase 9; a verification without features makes line 204
\* throw, and the catch of detectFrontend returns the analysis as it is
FeVerify ==
    /\ fePc = "verify"
    /\ \E raised \in {"no", "checks", "features"} :
          LET v == verifyFrameworkByFiles(feFiles, raised)
              named == v.framework # "undefined" /\ v.framework # "Unknown"
              picked == pickPrimaryFramework(<<v.framework>> \o feAnalysis.frameworks)
              a1 == IF named
                    THEN [feAnalysis EXCEPT
                             !.framework = IF picked # "undefined" THEN picked ELSE v.framework,
                             !.frameworks = mergeFrameworks(@, <<v.framework>>)]
                    ELSE feAnalysis
          IN  IF ~v.hasFeatures
              THEN feAnalysis' = a1 /\ fePc' = "done"
              ELSE /\ feAnalysis' =
                        [a1 EXCEPT !.features =
                            OrFlag(OrFlag(@, "hasJSX", v.hasJSX),
                                   "hasTypeScript", v.hasTypeScript)]
                   /\ fePc' = "build"
    /\ UNCHANGED <<aggVars, rootsAgain, notFeVars, tdVars, fePackageJson, feDeps, feFiles, feManifest>>

\* lines 207-216: build tools, the frameworks fallback, return analysis
FeReturn ==
    /\ fePc = "build"
    /\ feAnalysis' = [feAnalysis EXCEPT
                         !.frameworks = IF feAnalysis.framework # "Unknown" /\ @ = <<>>
                                        THEN <<feAnalysis.framework>> ELSE @]
    /\ fePc' = "done"
    /\ UNCHANGED <<aggVars, rootsAgain, notFeVars, tdVars, fePackageJson, feDeps, feFiles, feManifest>>

NextFrontend ==
    \/ FeManifest
    \/ FeConfig
    \/ FeVerify
    \/ FeReturn

SpecFrontend == InitFrontend /\ [][NextFrontend]_vars

\* C9: the file-based verification never replaces a primary framework chosen
\* from the manifest: when the manifest phases chose F, detectFrontend
\* returns F.
C9_VerificationKeepsManifestPrimary ==
    (fePc = "done" /\ feManifest.framework # "Unknown")
       => feAnalysis.framework = feManifest.framework


\* C13: for a directory with no manifests and no source files the completed
\* frontend analysis names the framework 'Unknown', every list is empty and
\* every boolean feature flag is present and false.
C13_EmptyDirectoryDefaults ==
    (fePc = "done" /\ ~fePackageJson /\ feFiles = {})
       => /\ feAnalysis.framework = "Unknown"
          /\ feAnalysis.frameworks = <<>>
          /\ feAnalysis.metaFrameworks = <<>>
          /\ feAnalysis.configFiles = {}
          /\ \A f \in FeatureFlags :
                f \in DOMAIN feAnalysis.features /\ feAnalysis.features[f] = FALSE


(***************************************************************************)
(* SpecBackend: detectBackend on one project directory, phase by phase     *)
(***************************************************************************)
BeFileUniverse == {"package.json", "requirements.txt", "pom.xml", "go.mod", "routes.js",
                   "server.js"}

BeDepUniverse == {"express", "koa", "@nestjs/core", "typescript", "jest"}

BeReqUniverse == {"django", "flask"}

BeGoModUniverse == {"github.com/gin-gonic/gin", "github.com/labstack/echo"}

InitBackend ==
    /\ mode = "backend"
    /\ AggIdle
    /\ wsFiles = {}
    /\ DiscoverIdle
    /\ DcIdle
    /\ LpIdle
    /\ TdIdle
    /\ FeIdle
    /\ bePc = "runtime"
    /\ beFiles \in SUBSET BeFileUniverse
    /\ beDeps \in SUBSET BeDepUniverse
    /\ "package.json" \notin beFiles => beDeps = {}
    /\ beReqs \in SUBSET BeReqUniverse
    /\ "requirements.txt" \notin beFiles => beReqs = {}
    /\ beGoMod \in SUBSET BeGoModUniverse
    /\ "go.mod" \notin beFiles => beGoMod = {}
    /\ beMerged = <<>>
    /\ beAnalysis = createBackendAnalysisBase

BeStep(from, to, source) ==
    /\ bePc = from
    /\ beAnalysis' = mergeBackendAnalysis(beAnalysis, source)
    /\ beMerged' = Append(beMerged, source)
    /\ bePc' = to
    /\ UNCHANGED <<aggVars, rootsAgain, notBeVars, tdVars, beFiles, beDeps, beReqs, beGoMod>>

\* lines 156-158
BeRuntime ==
    BeStep("runtime", "dependencies",
           detectRuntimeAndFramework(beFiles, beDeps, beReqs, beGoMod))

\* lines 160-162
BeDependencies ==
    BeStep("dependencies", "databases",
           analyzeBackendDependencies(beFiles, beDeps, beAnalysis.runtime,
                                      beAnalysis.framework.name))

\* lines 164-166
BeDatabases ==
    BeStep("databases", "structure", detectDatabasesAndORMs(beFiles, beDeps, beReqs))

\* lines 168-174: analyzeBackendStructure, then detectAdditionalServices,
\* whose result is always {}
BeStructure ==
    /\ bePc = "structure"
    /\ beAnalysis' = mergeBackendAnalysis(
                        mergeBackendAnalysis(beAnalysis, analyzeBackendStructure(beFiles)),
                        <<>>)
    /\ beMerged' = beMerged \o <<analyzeBackendStructure(beFiles), <<>> >>
    /\ bePc' = "deployment"
    /\ UNCHANGED <<aggVars, rootsAgain, notBeVars, tdVars, beFiles, beDeps, beReqs, beGoMod>>

\* lines 176-178
BeDeployment ==
    BeStep("deployment", "verify", [deployment |-> detectDeploymentConfig(beFiles)])

\* lines 180-182
BeVerify ==
    BeStep("verify", "api", verifyBackendByFiles(beFiles))

\* lines 184-187: mergeBackendAnalysis(analysis, { features: apiAnalysis }); return
BeApi ==
    \E rest \in BOOLEAN :
       BeStep("api", "done", [features |-> detectAPIPatterns(beFiles, rest)])

NextBackend ==
    \/ BeRuntime
    \/ BeDependencies
    \/ BeDatabases
    \/ BeStructure
    \/ BeDeployment
    \/ BeVerify
    \/ BeApi

SpecBackend == InitBackend /\ [][NextBackend]_vars

MarkedRuntimes ==
    {runtimeChecks[i].runtime : i \in {k \in 1..Len(runtimeChecks) :
                                          runtimeChecks[k].files \cap beFiles # {}}}

FrameworkNames(frameworks) == {frameworks[i].name : i \in 1..Len(frameworks)}

\* The frameworks whose signal the manifests of the primary runtime match,
\* in that runtime's priority order.
MatchedSignals ==
    LET ts(n) == IF "typescript" \in beDeps THEN TypeScriptName(n) ELSE n
    IN  CASE beAnalysis.runtime = "Node.js" ->
                Opt("@nestjs/core" \in beDeps, ts("NestJS"))
                \o Opt("express" \in beDeps, ts("Express.js"))
                \o Opt("koa" \in beDeps, ts("Koa"))
          [] beAnalysis.runtime = "Python" ->
                Opt("django" \in beReqs, "Django") \o Opt("flask" \in beReqs, "Flask")
          [] beAnalysis.runtime = "Go" ->
                Opt("github.com/gin-gonic/gin" \in beGoMod, "Gin")
                \o Opt("github.com/labstack/echo" \in beGoMod, "Echo")
          [] OTHER -> <<>>

\* C15: framework signals are collected for the primary runtime only; every
\* framework of that runtime whose signal matches is in the frameworks list,
\* and the primary framework is the first of them in the runtime's priority
\* order ('Unknown' when there is none).
C15_FrameworksOfPrimaryRuntime ==
    bePc \notin {"off", "runtime"} =>
       /\ FrameworkNames(beAnalysis.frameworks) = Range(MatchedSignals)
       /\ beAnalysis.framework.name =
             IF MatchedSignals = <<>> THEN "Unknown" ELSE MatchedSignals[1]


(***************************************************************************)
(* Spec: createDependencyObject and categorizeDependency on one name       *)
(***************************************************************************)
MaxParts == 2

\* word parts that names are put together from
NameParts == {
    <<"r", "e", "a", "c", "t">>,
    <<"-", "r", "o", "u", "t", "e", "r">>,
    <<"m", "y", "-">>,
    <<"t", "e", "s", "t">>,
    <<"S", "p", "e", "c">>,
    <<"l", "e", "s", "s">>,
    <<"d", "a", "t", "e">>,
    <<"@", "t", "y", "p", "e", "s", "/">>,
    <<"x">>,
    <<"-", "d", "o", "m">>}

RECURSIVE joined(_)
joined(ps) == IF ps = <<>> THEN <<>> ELSE Head(ps) \o joined(Tail(ps))

\* names of the scenarios, every table key, and the names of up to MaxParts parts
DepNameUniverse ==
    {<<"m", "y", "-", "t", "e", "s", "t", "-", "p", "a", "c", "k", "a", "g", "e">>,
     <<"a", "w", "e", "s", "o", "m", "e", "-", "u", "i", "-", "l", "i", "b", "r", "a", "r", "y">>,
     <<"d", "a", "t", "e", "-", "f", "o", "r", "m", "a", "t", "t", "e", "r">>,
     <<"r", "e", "a", "c", "t", "-", "r", "o", "u", "t", "e", "r", "-", "c", "o", "n", "f", "i", "g">>,
     <<"j", "e", "s", "t">>}
    \cup {PACKAGE_CATEGORIES[i].key : i \in DOMAIN PACKAGE_CATEGORIES}
    \cup {joined(ps) : ps \in UNION {[1..n -> NameParts] : n \in 1..MaxParts}}

InitClassify ==
    /\ mode = "classify"
    /\ AggIdle
    /\ wsFiles = {}
    /\ DiscoverIdle
    /\ FeIdle
    /\ BeIdle
    /\ LpIdle
    /\ TdIdle
    /\ dcName \in DepNameUniverse
    /\ dcDependency = <<>>
    /\ dcCategorized = "undefined"

\* dependency.ts lines 46-68: one entry of package.json is classified
DcCreate ==
    /\ mode = "classify"
    /\ dcDependency = <<>>
    /\ dcDependency' = <<createDependencyObject(dcName)>>
    /\ UNCHANGED <<aggVars, rootsAgain, feVars, beVars, lpVars, tdVars, dcName, dcCategorized>>

\* a caller of the exported categorizeDependency
DcCategorize ==
    /\ mode = "classify"
    /\ dcCategorized = "undefined"
    /\ dcCategorized' = categorizeDependency(dcName)
    /\ UNCHANGED <<aggVars, rootsAgain, feVars, beVars, lpVars, tdVars, dcName, dcDependency>>

NextClassify == DcCreate \/ DcCategorize

SpecClassify == InitClassify /\ [][NextClassify]_vars
\* the table keys that are a prefix of the name, and the longest of them
prefixKeys(name) ==
    {i \in DOMAIN PACKAGE_CATEGORIES : startsWith(name, PACKAGE_CATEGORIES[i].key)}

longestOf(positions) ==
    CHOOSE i \in positions :
        \A j \in positions : Len(PACKAGE_CATEGORIES[j].key) <= Len(PACKAGE_CATEGORIES[i].key)

\* exact key, else longest prefix key, else the keyword heuristic
threeTierCategory(name) ==
    IF exactMatches(name) # {}
    THEN PACKAGE_CATEGORIES[firstOf(exactMatches(name))].category
    ELSE IF prefixKeys(name) # {}
    THEN PACKAGE_CATEGORIES[longestOf(prefixKeys(name))].category
    ELSE guessCategoryFromName(name)

\* C16: the category analyzeDependencies gives a name is that of the table
\* key equal to the name, else that of the longest table key that is a
\* prefix of the name, else the keyword heuristic's ('Other' when no keyword
\* matches); every dependency has one category.
C16_ThreeTierCategory ==
    dcDependency # <<>> =>
        dcDependency[1].category = threeTierCategory(dcName)

inTable(name) == exactMatches(name) # {}

MaxFiles == 3

LpFileUniverse == {
    [name |-> "a.ts", ext |-> ".ts", shebang |-> "none", readable |-> TRUE, lines |-> 3, bytes |-> 30],
    [name |-> "b.js", ext |-> ".js", shebang |-> "none", readable |-> TRUE, lines |-> 3, bytes |-> 30],
    [name |-> "build", ext |-> "", shebang |-> "bash", readable |-> TRUE, lines |-> 2, bytes |-> 12],
    [name |-> "deploy", ext |-> "", shebang |-> "sh", readable |-> TRUE, lines |-> 2, bytes |-> 12],
    [name |-> "package.json", ext |-> ".json", shebang |-> "none", readable |-> TRUE, lines |-> 1, bytes |-> 2],
    [name |-> "locked.py", ext |-> ".py", shebang |-> "none", readable |-> FALSE, lines |-> 0, bytes |-> 0] }

\* the orders in which glob may list a directory: sequences without repetition
LpListings ==
    {fs \in UNION {[1..n -> LpFileUniverse] : n \in 0..MaxFiles} :
        \A i, j \in 1..Len(fs) : i # j => fs[i] # fs[j]}

LpFailing == SUBSET {"package.json", "*.*"}

InitLanguages ==
    /\ mode = "languages"
    /\ AggIdle
    /\ wsFiles = {}
    /\ DiscoverIdle
    /\ FeIdle
    /\ BeIdle
    /\ DcIdle
    /\ TdIdle
    /\ \E fs \in LpListings, exists, fails \in BOOLEAN, failing \in LpFailing :
          /\ ~exists => fs = <<>>
          /\ lpEnv = [files |-> fs, exists |-> exists, traversalFails |-> fails,
                      failing |-> failing]
    /\ lpPc = "start"
    /\ lpRun = 1
    /\ lpI = 0
    /\ lpTask = <<>>
    /\ lpStats = <<>>
    /\ lpReturned = <<>>
    /\ lpThrew = FALSE
    /\ lpFirst = <<>>

lpOther == <<aggVars, rootsAgain, feVars, beVars, dcVars, tdVars, lpEnv, lpRun, lpFirst>>

\* lines 23-24 and 33-43: getConfiguration and glob; a rejection goes to the
\* catch block of detectLanguages
LpTraverse ==
    /\ lpPc = "start"
    /\ IF lpEnv.traversalFails
       THEN IF catchesTraversalError
            THEN lpPc' = "fallback" /\ UNCHANGED lpThrew
            ELSE lpPc' = "returned" /\ lpThrew' = TRUE
       ELSE lpPc' = "loop" /\ UNCHANGED lpThrew
    /\ lpI' = 0
    /\ lpTask' = [k \in 1..Len(lpEnv.files) |-> "idle"]
    /\ UNCHANGED <<lpOther, lpStats, lpReturned>>

batchOf(i) ==
    {k \in 1..Len(lpEnv.files) : i < k /\ k <= i + batchSize}

\* the callbacks of one batch up to their first file read: those whose
\* language is known without a read count their file, in batch order
RECURSIVE countImmediate(_, _, _)
countImmediate(stats, k, last) ==
    IF k > last THEN stats
    ELSE LET file == lpEnv.files[k]
         IN  countImmediate(
                IF ~needsProbe(file) /\ detectLanguageByFile(file) # "null"
                THEN countFile(stats, detectLanguageByFile(file), file.ext)
                ELSE stats,
                k + 1, last)

\* lines 46-50: batch.map starts every callback of the batch
LpLaunch ==
    /\ lpPc = "loop"
    /\ lpI < Len(lpEnv.files)
    /\ lpStats' = countImmediate(lpStats, lpI + 1,
                     IF lpI + batchSize < Len(lpEnv.files)
                     THEN lpI + batchSize ELSE Len(lpEnv.files))
    /\ lpTask' = [k \in 1..Len(lpEnv.files) |->
                    IF k \notin batchOf(lpI) THEN lpTask[k]
                    ELSE IF needsProbe(lpEnv.files[k]) THEN "probe"
                    ELSE IF detectLanguageByFile(lpEnv.files[k]) = "null" THEN "done"
                    ELSE "read"]
    /\ lpPc' = "batch"
    /\ UNCHANGED <<lpOther, lpI, lpReturned, lpThrew>>

\* lines 192-205 then 55-66: the read of a file without extension settles
LpProbeDone ==
    /\ lpPc = "batch"
    /\ \E k \in batchOf(lpI) :
          /\ lpTask[k] = "probe"
          /\ LET file == lpEnv.files[k]
                 language == detectLanguageByFile(file)
             IN  IF language = "null"
                 THEN /\ lpTask' = [lpTask EXCEPT ![k] = "done"]
                      /\ UNCHANGED lpStats
                 ELSE /\ lpTask' = [lpTask EXCEPT ![k] = "read"]
                      /\ lpStats' = countFile(lpStats, language, file.ext)
    /\ UNCHANGED <<lpOther, lpPc, lpI, lpReturned, lpThrew>>

\* lines 68-74: fs.readFile(filePath, 'utf8') settles
LpReadDone ==
    /\ lpPc = "batch"
    /\ \E k \in batchOf(lpI) :
          /\ lpTask[k] = "read"
          /\ lpTask' = [lpTask EXCEPT ![k] = "done"]
          /\ lpStats' = countContent(lpStats, detectLanguageByFile(lpEnv.files[k]),
                                     lpEnv.files[k])
    /\ UNCHANGED <<lpOther, lpPc, lpI, lpReturned, lpThrew>>

\* line 49: Promise.all of the batch settles
LpJoin ==
    /\ lpPc = "batch"
    /\ \A k \in batchOf(lpI) : lpTask[k] = "done"
    /\ lpI' = lpI + batchSize
    /\ lpPc' = "loop"
    /\ UNCHANGED <<lpOther, lpTask, lpStats, lpReturned, lpThrew>>

\* lines 84-103 and 25: primary extensions, then rankLanguages(stats)
LpRank ==
    /\ lpPc = "loop"
    /\ lpI >= Len(lpEnv.files)
    /\ lpStats' = withPrimaryExtensions(lpStats)
    /\ lpReturned' = rankLanguages(lpStats')
    /\ lpPc' = "returned"
    /\ UNCHANGED <<lpOther, lpI, lpTask, lpThrew>>

\* lines 26-28
LpFallback ==
    /\ lpPc = "fallback"
    /\ lpReturned' = fallbackDetection(lpEnv.files, lpEnv.failing)
    /\ lpPc' = "returned"
    /\ UNCHANGED <<lpOther, lpI, lpTask, lpStats, lpThrew>>

\* the profiler is run again on the same directory
LpAgain ==
    /\ lpPc = "returned"
    /\ lpRun = 1
    /\ lpFirst' = <<[stats |-> lpStats, ranked |-> lpReturned, threw |-> lpThrew]>>
    /\ lpRun' = 2
    /\ lpPc' = "start"
    /\ lpI' = 0
    /\ lpTask' = <<>>
    /\ lpStats' = <<>>
    /\ lpReturned' = <<>>
    /\ lpThrew' = FALSE
    /\ UNCHANGED <<aggVars, rootsAgain, feVars, beVars, dcVars, tdVars, lpEnv>>

NextLanguages ==
    \/ LpTraverse
    \/ LpLaunch
    \/ LpProbeDone
    \/ LpReadDone
    \/ LpJoin
    \/ LpRank
    \/ LpFallback
    \/ LpAgain

SpecLanguages == InitLanguages /\ [][NextLanguages]_vars
\* the statistics of a run, language by language, extensions as a set
perLanguage(stats) ==
    {[language |-> stats[i].language, files |-> stats[i].files,
      lines |-> stats[i].lines, bytes |-> stats[i].bytes,
      extensions |-> Range(stats[i].extensions),
      primaryExtension |-> stats[i].primaryExtension] : i \in 1..Len(stats)}

\* C18: two runs of the language profiler on one unchanged directory give the
\* same statistics for every language and the same ranked list in the same
\* order, whatever the order in which the file reads of a batch complete.
C18_TwoRunsAgree ==
    (lpRun = 2 /\ lpPc = "returned") =>
        /\ perLanguage(lpStats) = perLanguage(lpFirst[1].stats)
        /\ lpReturned = lpFirst[1].ranked

\* what the manifest checks and the shallow scan can find in the directory
fallbackEvidence ==
    {configChecks[i].language : i \in
        {j \in 1..Len(configChecks) :
            /\ configChecks[j].file \notin lpEnv.failing
            /\ globFinds(configChecks[j].file, lpEnv.files)}}
    \cup (IF "*.*" \in lpEnv.failing THEN {}
          ELSE {extensionMap(lpEnv.files[i].ext) :
                    i \in {j \in 1..Len(lpEnv.files) : lpEnv.files[j].ext # ""}}
               \ {"null"})

\* C19: detectLanguages never rejects; when the traversal fails it returns
\* what the manifest checks and the shallow scan find; for an empty or
\* non-existent directory it returns the empty list.
C19_NeverThrows ==
    lpPc = "returned" =>
        /\ ~lpThrew
        /\ lpEnv.traversalFails => Range(lpReturned) = fallbackEvidence
        /\ lpEnv.files = <<>> => lpReturned = <<>>

C19_Witness ==
    /\ lpPc = "returned"
    /\ lpEnv.traversalFails
    /\ ~lpThrew
    /\ "JavaScript" \in Range(lpReturned)
    /\ lpRun = 2
    /\ ~lpFirst[1].threw

(***************************************************************************)
(* Spec: rankLanguages on given statistics                                 *)
(***************************************************************************)
RankLanguageOrder ==
    <<"Shell", "HTML", "CSS", "Go", "Rust", "Python", "JavaScript", "TypeScript">>

reversed(s) == [i \in 1..Len(s) |-> s[Len(s) + 1 - i]]

\* statistics of a language seen in one file, or in four
rankEntry(language, heavy) ==
    [language |-> language,
     files |-> IF heavy THEN 4 ELSE 1,
     lines |-> IF heavy THEN 4 ELSE 1,
     bytes |-> IF heavy THEN 40 ELSE 10,
     extensions |-> <<>>,
     primaryExtension |-> "undefined"]

\* statistics over a set of languages, discovered in the given order
rankInput(order, present, heavy) ==
    LET kept == SelectSeq(order, LAMBDA l : l \in present)
    IN  [i \in 1..Len(kept) |-> rankEntry(kept[i], kept[i] \in heavy)]

InitRank ==
    /\ mode = "rank"
    /\ AggIdle
    /\ wsFiles = {}
    /\ DiscoverIdle
    /\ FeIdle
    /\ BeIdle
    /\ DcIdle
    /\ TdIdle
    /\ lpEnv = NoEnv
    /\ lpPc = "rank"
    /\ lpRun = 0
    /\ lpI = 0
    /\ lpTask = <<>>
    /\ \E order \in {RankLanguageOrder, reversed(RankLanguageOrder)},
          present \in SUBSET Range(RankLanguageOrder) :
          \E heavy \in SUBSET present :
             lpStats = rankInput(order, present, heavy)
    /\ lpReturned = <<>>
    /\ lpThrew = FALSE
    /\ lpFirst = <<>>

\* a call of the exported rankLanguages
RankCall ==
    /\ mode = "rank"
    /\ lpPc = "rank"
    /\ lpReturned' = rankLanguages(lpStats)
    /\ lpPc' = "returned"
    /\ UNCHANGED <<lpOther, lpI, lpTask, lpStats, lpThrew>>

NextRank == RankCall

SpecRank == InitRank /\ [][NextRank]_vars

scoreOf(language) == score(lpStats[entryOf(lpStats, language)])

\* a ranks before b: higher score, or the same score and discovered earlier
ranksBefore(a, b) ==
    \/ scoreOf(a) > scoreOf(b)
    \/ scoreOf(a) = scoreOf(b) /\ entryOf(lpStats, a) < entryOf(lpStats, b)

forced(top, language) ==
    IF hasLanguage(lpStats, language) /\ language \notin Range(top)
    THEN <<language>> ELSE <<>>

\* C20: rankLanguages returns the 5 highest-scoring languages in descending
\* score order, equal scores in discovery order, then TypeScript and
\* JavaScript when they are in the statistics but not among those 5; no
\* duplicates, at most 7 entries, and the empty list for empty statistics.
C20_TopFiveThenTsJs ==
    (mode = "rank" /\ lpPc = "returned") =>
        LET r == lpReturned
            k == IF Len(lpStats) < 5 THEN Len(lpStats) ELSE 5
            top == SubSeq(r, 1, k)
        IN  /\ Len(lpStats) = 0 => r = <<>>
            /\ Len(r) >= k
            /\ \A i \in 1..k : hasLanguage(lpStats, r[i])
            /\ \A i, j \in 1..k : i < j => ranksBefore(r[i], r[j])
            /\ \A e \in Range(lpStats) :
                  e.language \notin Range(top) =>
                      \A i \in 1..k : ranksBefore(r[i], e.language)
            /\ SubSeq(r, k + 1, Len(r)) =
                  forced(top, "TypeScript") \o forced(top, "JavaScript")
            /\ \A i, j \in 1..Len(r) : i # j => r[i] # r[j]
            /\ Len(r) <= 7

C20_Witness ==
    /\ mode = "rank"
    /\ lpPc = "returned"
    /\ Len(lpStats) = 8
    /\ Len(lpReturned) = 7
    /\ lpReturned[6] = "TypeScript"
    /\ lpReturned[7] = "JavaScript"
    /\ \E i \in 1..4 : scoreOf(lpReturned[i]) = scoreOf(lpReturned[i + 1])

\* C30: categorizeDependency(name) and the category createDependencyObject
\* gives the same name inside analyzeDependencies are equal, for every name.
C30_ClassifiersAgree ==
    (dcDependency # <<>> /\ dcCategorized # "undefined") =>
        dcDependency[1].category = dcCategorized


(***************************************************************************)
(* Spec: detectTestingTools                                                *)
(***************************************************************************)
TdDepUniverse == {"jest", "vitest", "chai", "cypress"}

TdFileUniverse == <<
    [path |-> <<"j", "e", "s", "t", ".", "c", "o", "n", "f", "i", "g", ".", "j", "s">>, content |-> {"maxWorkers", "reporters"}],
    [path |-> <<".", "n", "y", "c", "r", "c">>, content |-> {}],
    [path |-> <<"a", ".", "t", "e", "s", "t", ".", "j", "s">>, content |-> {"from 'chai'", "@testing-library/react"}],
    [path |-> <<"b", ".", "t", "e", "s", "t", ".", "j", "s">>, content |-> {"from 'chai'"}],
    [path |-> <<"t", "e", "s", "t", "s", "/", "c", ".", "s", "p", "e", "c", ".", "t", "s">>, content |-> {"snapshot"}] >>

InitTesting ==
    /\ mode = "testing"
    /\ AggIdle
    /\ wsFiles = {}
    /\ DiscoverIdle
    /\ FeIdle
    /\ BeIdle
    /\ DcIdle
    /\ LpIdle
    /\ tdPc = "package"
    /\ \E hasPackageJson \in BOOLEAN, deps \in SUBSET TdDepUniverse,
          scripts \in SUBSET {"--watch"}, present \in SUBSET (1..Len(TdFileUniverse)) :
          /\ ~hasPackageJson => deps = {} /\ scripts = {}
          /\ tdEnv = [hasPackageJson |-> hasPackageJson, deps |-> deps, scripts |-> scripts,
                      files |-> LET kept == SelectSeq([i \in 1..Len(TdFileUniverse) |-> i],
                                                      LAMBDA i : i \in present)
                                IN  [i \in 1..Len(kept) |-> TdFileUniverse[kept[i]]]]
    /\ tdAnalysis = NewTestingAnalysis
    /\ tdManifest = NewTestingAnalysis
    /\ tdTrue = {}

trueFlags(a) ==
    {g \in TestingFlags : a[g]} \cup {f \in TestingFeatures : a.features[f]}

TdStep(from, to, next) ==
    /\ tdPc = from
    /\ tdAnalysis' = next
    /\ tdTrue' = tdTrue \cup trueFlags(next)
    /\ tdPc' = to
    /\ UNCHANGED <<aggVars, rootsAgain, detVars, tdEnv>>

\* lines 72-73
TdPackage ==
    /\ TdStep("package", "config",
              objectAssign(tdAnalysis, analyzePackageJson(tdEnv.hasPackageJson, tdEnv.deps)))
    /\ tdManifest' = tdAnalysis'

\* lines 76-78
TdConfig ==
    /\ TdStep("config", "structure",
              LET configAnalysis == analyzeTestConfigFiles(tdEnv.files)
              IN  [tdAnalysis EXCEPT !.configFiles = configAnalysis.configFiles,
                                     !.features = configAnalysis.features @@ @])
    /\ UNCHANGED tdManifest

\* lines 81-82
TdStructure ==
    /\ TdStep("structure", "files",
              [tdAnalysis EXCEPT !.testFilePatterns =
                    analyzeTestStructure(tdEnv.files).testFilePatterns])
    /\ UNCHANGED tdManifest

\* lines 85-86
TdFiles ==
    /\ TdStep("files", "languages", objectAssign(tdAnalysis, analyzeTestFiles(tdEnv.files)))
    /\ UNCHANGED tdManifest

\* line 89
TdLanguages ==
    /\ TdStep("languages", "features",
              [tdAnalysis EXCEPT !.languages = detectTestLanguages(tdEnv.files)])
    /\ UNCHANGED tdManifest

\* lines 92-93
TdFeatures ==
    /\ TdStep("features", "dedupe",
              objectAssign(tdAnalysis,
                  detectTestingFeatures(tdEnv.files, tdEnv.scripts, tdAnalysis.frameworks)))
    /\ UNCHANGED tdManifest

\* lines 96-102
TdReturn ==
    /\ TdStep("dedupe", "done",
              [l \in ToolLists |-> dedupe(tdAnalysis[l])] @@ tdAnalysis)
    /\ UNCHANGED tdManifest

NextTesting ==
    \/ TdPackage
    \/ TdConfig
    \/ TdStructure
    \/ TdFiles
    \/ TdLanguages
    \/ TdFeatures
    \/ TdReturn

SpecTesting == InitTesting /\ [][NextTesting]_vars

\* C22: no list field of the TestingAnalysis that detectTestingTools returns
\* holds an entry twice: frameworks, coverageTools, e2eTools,
\* assertionLibraries, mockingLibraries, configFiles, languages and
\* testStructure.testFilePatterns.
C22_ListsHaveNoDuplicates ==
    tdPc = "done" =>
        \A l \in ToolLists \cup {"configFiles", "languages", "testFilePatterns"} :
            \A i, j \in 1..Len(tdAnalysis[l]) : i # j => tdAnalysis[l][i] # tdAnalysis[l][j]

\* C23: nothing an earlier phase found is lost: the names the manifest phase
\* put into frameworks, assertionLibraries and mockingLibraries are in the
\* returned lists, and each flag (snapshotTesting, visualTesting,
\* performanceTesting, securityTesting, features.*) that was true after some
\* phase is true in the returned analysis.
C23_NoEvidenceLost ==
    tdPc = "done" =>
        /\ \A l \in {"frameworks", "assertionLibraries", "mockingLibraries"} :
              Range(tdManifest[l]) \subseteq Range(tdAnalysis[l])
        /\ tdTrue \subseteq trueFlags(tdAnalysis)
\* the directories that directly hold a matched manifest, and the manifests
\* matched in one directory
manifestDirs ==
    {f.dir : f \in {g \in wsFiles : g.name \in Range(MANIFEST_PATTERNS) /\ ~Ignored(g.dir)}}

manifestsIn(dir) ==
    {f.name : f \in {g \in wsFiles : g.dir = dir /\ g.name \in Range(MANIFEST_PATTERNS)}}

\* C21: detectWorkspaceProjects returns one root for each directory that
\* directly holds a matched manifest, each root listing the manifests of its
\* own directory and no others; with no matched manifest it returns the one
\* root whose path is the workspace path; the result is never empty.
C21_OneRootPerManifestDirectory ==
    mode = "discover" =>
        /\ \A o \in WalkOrders(wsFiles) : detectWorkspaceProjects(wsFiles, o) # <<>>
        /\ roots # <<>> =>
              /\ \A i, j \in 1..Len(roots) : i # j => roots[i].rootPath # roots[j].rootPath
              /\ IF manifestDirs = {}
                 THEN Len(roots) = 1 /\ roots[1].rootPath = <<>> /\ roots[1].manifestFiles = {}
                 ELSE /\ {roots[i].rootPath : i \in 1..Len(roots)} = manifestDirs
                      /\ \A i \in 1..Len(roots) :
                            roots[i].manifestFiles = manifestsIn(roots[i].rootPath)

C21_Witness ==
    /\ mode = "discover"
    /\ Len(roots) = 2
    /\ \E i \in 1..2 : roots[i].manifestFiles = {"package.json", "go.mod"}
    /\ \E f \in wsFiles : Ignored(f.dir) /\ f.name = "package.json"
    /\ \E f \in wsFiles : f.name = "README.md"

\* C24: a feature flag of detectFrontend that the dependency phase set to
\* true is true in the returned analysis, whatever the structure,
\* config-file and verification phases find.
C24_FrontendFlagsMonotonic ==
    fePc = "done" =>
        \A f \in FeatureFlags :
            (f \in DOMAIN feManifest.features /\ feManifest.features[f])
                => (f \in DOMAIN feAnalysis.features /\ feAnalysis.features[f])

(***************************************************************************)
(* Spec: mergeBackendAnalysis applied to a sequence of partial results.    *)
(***************************************************************************)
MaxMerges == 3

fwExpress == [name |-> "Express.js", server |-> "Express"]

fwNest == [name |-> "NestJS", server |-> "Express/Fastify"]

fwDjango == [name |-> "Django", server |-> "Django"]

\* Partial<BackendAnalysis> values of the shapes the phases of detectBackend
\* return
PhaseResults ==
    << <<>>,
       [runtimes |-> <<"Node.js", "Python">>, runtime |-> "Node.js",
        framework |-> fwNest, frameworks |-> <<fwExpress, fwNest>>],
       [runtimes |-> <<"Python">>, runtime |-> "Python",
        framework |-> fwDjango, frameworks |-> <<fwDjango>>],
       [framework |-> UnknownFramework],
       [server |-> "Nginx", servers |-> <<"Nginx", "Express">>],
       [database |-> <<"Redis", "MongoDB">>, orm |-> "Prisma"],
       [database |-> <<"MongoDB", "PostgreSQL">>, orm |-> "Sequelize"],
       [database |-> <<>>, orm |-> "undefined"],
       [authentication |-> <<"Auth0">>, caching |-> <<"Redis">>, messaging |-> <<>>,
        search |-> <<>>, monitoring |-> <<"Sentry">>,
        features |-> [f \in BackendFlags |-> f \in {"hasGraphQL", "hasTesting"}]],
       [features |-> [f \in BackendFlags |-> f = "hasREST"]],
       [features |-> [f \in {"hasREST", "hasWebSockets"} |-> TRUE]],
       [features |-> <<>>],
       [entryPoints |-> <<"server.js", "app.js">>, apiRoutes |-> <<"routes">>,
        models |-> <<>>, configFiles |-> <<".env">>],
       [entryPoints |-> <<"app.js", "index.js">>, configFiles |-> <<".env">>],
       [deployment |-> [f \in DeploymentFlags |-> f = "hasDocker"]],
       [deployment |-> [f \in DeploymentFlags |-> FALSE]] >>

InitMerge ==
    /\ mode = "merge"
    /\ AggIdle
    /\ wsFiles = {}
    /\ DiscoverIdle
    /\ DcIdle
    /\ LpIdle
    /\ TdIdle
    /\ FeIdle
    /\ bePc = "merge"
    /\ beFiles = {}
    /\ beDeps = {}
    /\ beReqs = {}
    /\ beGoMod = {}
    /\ beMerged = <<>>
    /\ beAnalysis = createBackendAnalysisBase

\* one call mergeBackendAnalysis(analysis, source)
MergeCall ==
    /\ bePc = "merge"
    /\ Len(beMerged) < MaxMerges
    /\ \E i \in 1..Len(PhaseResults) :
          /\ beAnalysis' = mergeBackendAnalysis(beAnalysis, PhaseResults[i])
          /\ beMerged' = Append(beMerged, PhaseResults[i])
    /\ UNCHANGED <<aggVars, rootsAgain, notBeVars, tdVars, bePc, beFiles, beDeps, beReqs,
                   beGoMod>>

NextMerge == MergeCall

SpecMerge == InitMerge /\ [][NextMerge]_vars

\* the flag holds true in the flag object
IsTrue(flags, f) == f \in DOMAIN flags /\ flags[f]

\* some merged phase result had the flag of the given group true
SuppliedTrue(group, f) ==
    \E i \in 1..Len(beMerged) :
       /\ Supplies(beMerged[i], group)
       /\ IsTrue(beMerged[i][group], f)

\* C25: in detectBackend, after every merge, a features flag or a deployment
\* flag is true exactly when some merged phase result had it true; a later
\* result that has it false or omits it does not reset it.
C25_FlagsAreOrCombined ==
    /\ \A f \in BackendFlags : IsTrue(beAnalysis.features, f) <=> SuppliedTrue("features", f)
    /\ \A f \in DeploymentFlags :
          IsTrue(beAnalysis.deployment, f) <=> SuppliedTrue("deployment", f)

\* the dependency phase found a test library, the verification phase found no
\* test file and the API phase omitted the flag; the analysis is returned
C25_Witness ==
    /\ mode = "backend"
    /\ bePc = "done"
    /\ IsTrue(beAnalysis.features, "hasTesting")
    /\ IsTrue(beMerged[2].features, "hasTesting")
    /\ ~IsTrue(beMerged[7].features, "hasTesting")
    /\ "hasTesting" \notin DOMAIN beMerged[8].features

\* the values the merged phase results supplied for a list-valued field, as
\* a set; runtimes and servers are also supplied by the scalar of that name
SuppliedTo(field) ==
    UNION {Range(beMerged[i][field]) :
              i \in {k \in 1..Len(beMerged) : Supplies(beMerged[k], field)}}

SuppliedScalar(field) ==
    {beMerged[i][field] : i \in {k \in 1..Len(beMerged) : Supplies(beMerged[k], field)}}
        \ {"undefined"}

SuppliedFrameworkNames ==
    ({fw.name : fw \in SuppliedTo("frameworks")}
        \cup {beMerged[i].framework.name :
                 i \in {k \in 1..Len(beMerged) : Supplies(beMerged[k], "framework")}})
    \ {"undefined", "Unknown"}

\* C26: after any sequence of mergeBackendAnalysis calls every list-valued
\* field of the analysis holds exactly the values the merged phase results
\* supplied for it, each once (frameworks: one entry for each supplied name).
C26_ListsAreDuplicateFreeUnions ==
    /\ \A l \in BackendLists :
          /\ Range(beAnalysis.lists[l]) = SuppliedTo(l)
          /\ NoDup(beAnalysis.lists[l])
    /\ Range(beAnalysis.runtimes) = SuppliedTo("runtimes") \cup SuppliedScalar("runtime")
    /\ NoDup(beAnalysis.runtimes)
    /\ Range(beAnalysis.servers) = SuppliedTo("servers") \cup SuppliedScalar("server")
    /\ NoDup(beAnalysis.servers)
    /\ FrameworkNames(beAnalysis.frameworks) = SuppliedFrameworkNames
    /\ Cardinality(FrameworkNames(beAnalysis.frameworks)) = Len(beAnalysis.frameworks)

\* two database results that share MongoDB were merged, and a result whose
\* primary framework is also in its frameworks list
C26_Witness ==
    /\ mode = "merge"
    /\ beAnalysis.lists["database"] = <<"Redis", "MongoDB", "PostgreSQL">>
    /\ beAnalysis.frameworks = <<fwNest, fwExpress>>
    /\ beAnalysis.runtimes = <<"Node.js", "Python">>

\* the value of a scalar field in the first merged result that sets it;
\* "undefined" when none did
FirstSet(field) ==
    LET setters == {k \in 1..Len(beMerged) :
                       /\ Supplies(beMerged[k], field)
                       /\ beMerged[k][field] # "undefined"}
    IN  IF setters = {} THEN "undefined"
        ELSE beMerged[CHOOSE k \in setters : \A j \in setters : k <= j][field]

FirstFramework ==
    LET setters == {k \in 1..Len(beMerged) :
                       /\ Supplies(beMerged[k], "framework")
                       /\ beMerged[k].framework.name \notin {"undefined", "Unknown"}}
    IN  IF setters = {} THEN UnknownFramework
        ELSE beMerged[CHOOSE k \in setters : \A j \in setters : k <= j].framework

C28_ProjectsArePrefixOfRoots ==
    wsPc = "returned" =>
        LET r == wsResult[1]
        IN  /\ Len(r.projects) <= Len(r.roots)
            /\ \A i \in 1..Len(r.projects) :
                  /\ r.projects[i].projectId = r.roots[i].id
                  /\ r.projects[i].rootPath = r.roots[i].rootPath
            /\ r.summary.projectCount = Len(r.projects)
            /\ Len(r.projects) < Len(r.roots) => cancel

\* a workspace of two roots returned after the first root, the token having
\* been cancelled
C28_Witness ==
    /\ wsPc = "returned"
    /\ Len(wsResult[1].roots) = 2
    /\ Len(wsResult[1].projects) = 1
    /\ wsResult[1].projects[1].projectId = wsResult[1].roots[1].id
    /\ wsResult[1].roots[1].id # wsResult[1].roots[2].id
    /\ wsResult[1].summary.projectCount = 1

\* Spec: detectFrontend and detectBackend, each on its own project
InitDetectors == InitFrontend \/ InitBackend

NextDetectors == NextFrontend \/ NextBackend

SpecDetectors == InitDetectors /\ [][NextDetectors]_vars

\* the primary framework, when named, is in the list, and the list has no
\* entry named 'Unknown' and no name twice
ConsistentFrameworks(name, names) ==
    /\ name # "Unknown" => name \in Range(names)
    /\ "Unknown" \notin Range(names)
    /\ NoDup(names)

NamesOf(frameworks) == [i \in 1..Len(frameworks) |-> frameworks[i].name]

\* C29: in the analysis returned by detectFrontend and by detectBackend, a
\* framework.name other than 'Unknown' is the name of an entry of the
\* frameworks list, and the list holds no entry named 'Unknown' and no two
\* entries of the same name.
C29_PrimaryFrameworkIsListed ==
    /\ fePc = "done" => ConsistentFrameworks(feAnalysis.framework, feAnalysis.frameworks)
    /\ bePc = "done" =>
          ConsistentFrameworks(beAnalysis.framework.name, NamesOf(beAnalysis.frameworks))

\* detectFrontend returned for a project whose manifest names Vue and whose
\* files verify React: both are listed once and the primary is one of them
C29_Witness ==
    /\ fePc = "done"
    /\ feManifest.framework = "Vue"
    /\ feManifest.frameworks = <<"Vue", "jQuery">>
    /\ feAnalysis.framework = "React"
    /\ feAnalysis.frameworks = <<"Vue", "jQuery", "React">>

====
